---- MODULE Spec2Model ----
(***************************************************************************)
(* A model of the natural-language-to-query compiler of nlq_parser.py:     *)
(* NLQParser.parse and the extractors, classifiers and query builder it    *)
(* calls.  Utterances are strings; the regular expressions of the source   *)
(* are translated one by one into matchers over string positions, with     *)
(* Python's leftmost, greedy, ordered-alternation semantics.  The result   *)
(* dictionaries are JSON values with insertion-ordered keys, and           *)
(* json.dumps is the operator Dumps.                                       *)
(***************************************************************************)
EXTENDS Integers, Sequences, FiniteSets, TLC

(***************************************************************************)
(* Characters and strings (str methods and re character classes, ASCII).   *)
(***************************************************************************)
Ch(s, i) == SubSeq(s, i, i)

UpperAlphabet == "ABCDEFGHIJKLMNOPQRSTUVWXYZ"
LowerAlphabet == "abcdefghijklmnopqrstuvwxyz"
UpperLetters == {Ch(UpperAlphabet, i) : i \in 1..Len(UpperAlphabet)}
LowerLetters == {Ch(LowerAlphabet, i) : i \in 1..Len(LowerAlphabet)}
Letters == UpperLetters \cup LowerLetters
Digits == {"0", "1", "2", "3", "4", "5", "6", "7", "8", "9"}
\* \s
Whitespace == {" ", "\t", "\n", "\r", "\f"}
\* \w
WordChars == Letters \cup Digits \cup {"_"}
\* [a-zA-Z0-9\-_]
TokenChars == Letters \cup Digits \cup {"-", "_"}
\* [-\s]
HyphenSpace == Whitespace \cup {"-"}

LowerMap ==
  [c \in UpperLetters |->
     Ch(LowerAlphabet, CHOOSE i \in 1..Len(UpperAlphabet) : Ch(UpperAlphabet, i) = c)]

\* str.lower()
RECURSIVE lower(_)
lower(s) ==
  IF s = "" THEN ""
  ELSE (IF Head(s) \in UpperLetters THEN LowerMap[Head(s)] ELSE Head(s)) \o lower(Tail(s))

\* str.strip()
strip(s) ==
  LET keep == {i \in 1..Len(s) : Ch(s, i) \notin Whitespace}
  IN  IF keep = {} THEN ""
      ELSE SubSeq(s, CHOOSE i \in keep : \A j \in keep : i <= j,
                     CHOOSE i \in keep : \A j \in keep : i >= j)

\* the literal lit occurs in s at position i
At(s, i, lit) ==
  /\ i >= 1
  /\ i + Len(lit) - 1 <= Len(s)
  /\ SubSeq(s, i, i + Len(lit) - 1) = lit

\* lit in s
Contains(s, lit) == \E i \in 1..(Len(s) - Len(lit) + 1) : At(s, i, lit)

\* length of the longest run of characters of class cls that starts at i
\* (what a greedy cls* consumes)
RECURSIVE Run(_, _, _)
Run(s, i, cls) ==
  IF i <= Len(s) /\ Ch(s, i) \in cls THEN 1 + Run(s, i + 1, cls) ELSE 0

IsWordChar(s, i) == i >= 1 /\ i <= Len(s) /\ Ch(s, i) \in WordChars

\* \b just before position i (i in 1..Len(s)+1)
Boundary(s, i) == IsWordChar(s, i - 1) # IsWordChar(s, i)

Least(S) == CHOOSE i \in S : \A j \in S : i <= j

\* Optional values: None, or the one-element sequence holding the value.
None == <<>>
Some(v) == <<v>>

\* A pattern's matches in a string s are a table: at each position i of s,
\* the match that starts at i (a record), or None.

\* re.search: the match that starts leftmost
Search(matches) ==
  LET hits == {i \in DOMAIN matches : matches[i] # None}
  IN  IF hits = {} THEN None ELSE matches[Least(hits)]

\* re.sub(pattern, '', s): s without its non-overlapping matches, found
\* left to right from position i; a match's end is the position after it
RECURSIVE Sub(_, _, _)
Sub(s, matches, i) ==
  IF i > Len(s) THEN ""
  ELSE IF matches[i] # None THEN Sub(s, matches, matches[i][1].end)
       ELSE Ch(s, i) \o Sub(s, matches, i + 1)

\* int() of a string of digits
DigitValue(d) == CHOOSE n \in 0..9 : Ch("0123456789", n + 1) = d

RECURSIVE ParseInt(_)
ParseInt(s) ==
  IF s = "" THEN 0
  ELSE 10 * ParseInt(SubSeq(s, 1, Len(s) - 1)) + DigitValue(Ch(s, Len(s)))

(***************************************************************************)
(* OpenSearchQueryBuilder: JSON values and the clauses it builds.          *)
(* A dict is an insertion-ordered sequence of <<key, value>> pairs.        *)
(***************************************************************************)
JStr(s) == [t |-> "str", v |-> s]
JInt(n) == [t |-> "int", v |-> n]
JArr(elems) == [t |-> "arr", v |-> elems]
JObj(items) == [t |-> "obj", v |-> items]

HasKey(obj, key) == \E i \in 1..Len(obj.v) : obj.v[i][1] = key
Get(obj, key) == obj.v[CHOOSE i \in 1..Len(obj.v) : obj.v[i][1] = key][2]

\* d[key] = val: an existing key keeps its place, a new key goes last
SetItem(obj, key, val) ==
  IF HasKey(obj, key)
  THEN JObj([i \in 1..Len(obj.v) |->
               IF obj.v[i][1] = key THEN <<key, val>> ELSE obj.v[i]])
  ELSE JObj(Append(obj.v, <<key, val>>))

TIMESTAMP_FIELD == "@timestamp"

\* OpenSearchQueryBuilder.__init__: the two fields of a builder
DefaultSize == 50
NewQueryBuilder ==
  [default_size |-> DefaultSize,
   default_sort |-> JArr(<<JObj(<< <<TIMESTAMP_FIELD, JStr("desc")>> >>)>>)]

\* build_base_query(size): size is None or Some(n)
build_base_query(qb, size) ==
  JObj(<< <<"size", JInt(IF size # None THEN size[1] ELSE qb.default_size)>>,
          <<"sort", qb.default_sort>> >>)

\* build_bool_query(must=...): only the non-empty lists become keys
build_bool_query(must, should, must_not, filter) ==
  LET b0 == JObj(<<>>)
      b1 == IF must # <<>> THEN SetItem(b0, "must", JArr(must)) ELSE b0
      b2 == IF should # <<>> THEN SetItem(b1, "should", JArr(should)) ELSE b1
      b3 == IF must_not # <<>> THEN SetItem(b2, "must_not", JArr(must_not)) ELSE b2
      b4 == IF filter # <<>> THEN SetItem(b3, "filter", JArr(filter)) ELSE b3
  IN  JObj(<< <<"bool", b4>> >>)

build_service_filter(service_name) ==
  JObj(<< <<"match", JObj(<< <<"service.name", JStr(service_name)>> >>)>> >>)

build_log_level_filter(level) ==
  JObj(<< <<"match", JObj(<< <<"log.level", JStr(lower(level))>> >>)>> >>)

\* build_text_search(text): the field defaults to "_all"
build_text_search(text, field) ==
  IF field = "_all"
  THEN JObj(<< <<"match", JObj(<< <<"_all", JStr(text)>> >>)>> >>)
  ELSE JObj(<< <<"match", JObj(<< <<field, JStr(text)>> >>)>> >>)

RangeClause(bounds) ==
  JObj(<< <<"range", JObj(<< <<TIMESTAMP_FIELD, JObj(bounds)>> >>)>> >>)

\* the alternation of the "last X time_unit" pattern, in its order, and time_map
TimeUnits ==
  <<"minute", "minutes", "min", "hour", "hours", "hr", "hrs", "day", "days",
    "week", "weeks", "month", "months", "year", "years">>

\* a time_map that gives the months the code of the minutes
time_map_month_as_minute ==
  [u \in {TimeUnits[i] : i \in 1..Len(TimeUnits)} |->
     CASE u \in {"minute", "minutes", "min", "month", "months"} -> "m"
       [] u \in {"hour", "hours", "hr", "hrs"} -> "h"
       [] u \in {"day", "days"} -> "d"
       [] u \in {"week", "weeks"} -> "w"
       [] u \in {"year", "years"} -> "y"]

time_map ==
  [u \in {TimeUnits[i] : i \in 1..Len(TimeUnits)} |->
     CASE u \in {"minute", "minutes", "min"} -> "m"
       [] u \in {"hour", "hours", "hr", "hrs"} -> "h"
       [] u \in {"day", "days"} -> "d"
       [] u \in {"week", "weeks"} -> "w"
       [] u \in {"month", "months"} -> "M"
       [] u \in {"year", "years"} -> "y"]

\* first alternative of alts (a sequence of literals) that occurs at i, or 0
FirstAlt(s, i, alts) ==
  LET ok == {k \in 1..Len(alts) : At(s, i, alts[k])}
  IN  IF ok = {} THEN 0 ELSE Least(ok)

\* last\s+(\d+)\s+(minute|minutes|...|years) at position i
LastAmountUnitAt(s, i) ==
  LET a  == i + 4
      w1 == Run(s, a, Whitespace)
      d  == a + w1
      n  == Run(s, d, Digits)
      w2 == Run(s, d + n, Whitespace)
      u  == d + n + w2
      k  == FirstAlt(s, u, TimeUnits)
  IN  IF At(s, i, "last") /\ w1 >= 1 /\ n >= 1 /\ w2 >= 1 /\ k # 0
      THEN Some([amount |-> SubSeq(s, d, d + n - 1), unit |-> TimeUnits[k],
                 end |-> u + Len(TimeUnits[k])])
      ELSE None

\* a build_time_range that looks for 'today' and 'yesterday' before the
\* "last X time_unit" pattern
build_time_range_today_first(time_spec) ==
  LET spec == lower(time_spec)
      match == Search([i \in 1..Len(spec) |-> LastAmountUnitAt(spec, i)])
  IN  IF Contains(spec, "today")
      THEN Some(RangeClause(<< <<"gte", JStr("now/d")>> >>))
      ELSE IF Contains(spec, "yesterday")
      THEN Some(RangeClause(<< <<"gte", JStr("now-1d/d")>>, <<"lt", JStr("now/d")>> >>))
      ELSE IF match # None
      THEN Some(RangeClause(
             << <<"gte", JStr("now-" \o match[1].amount \o time_map[match[1].unit])>> >>))
      ELSE None

\* build_time_range(time_spec): a range clause, or None
build_time_range(time_spec) ==
  LET spec == lower(time_spec)
      match == Search([i \in 1..Len(spec) |-> LastAmountUnitAt(spec, i)])
  IN  IF match # None
      THEN Some(RangeClause(
             << <<"gte", JStr("now-" \o match[1].amount \o time_map[match[1].unit])>> >>))
      ELSE IF Contains(spec, "today")
      THEN Some(RangeClause(<< <<"gte", JStr("now/d")>> >>))
      ELSE IF Contains(spec, "yesterday")
      THEN Some(RangeClause(<< <<"gte", JStr("now-1d/d")>>, <<"lt", JStr("now/d")>> >>))
      ELSE None

\* json.dumps(value, separators=(isep, ksep)); every string the parser emits
\* is made of characters that json.dumps writes unescaped
RECURSIVE Dumps(_, _, _)
Dumps(val, isep, ksep) ==
  LET RECURSIVE Elems(_, _)
      Elems(xs, i) ==
        IF i > Len(xs) THEN ""
        ELSE (IF i > 1 THEN isep ELSE "") \o Dumps(xs[i], isep, ksep) \o Elems(xs, i + 1)
      RECURSIVE Items(_, _)
      Items(kv, i) ==
        IF i > Len(kv) THEN ""
        ELSE (IF i > 1 THEN isep ELSE "") \o "\"" \o kv[i][1] \o "\"" \o ksep
             \o Dumps(kv[i][2], isep, ksep) \o Items(kv, i + 1)
  IN  CASE val.t = "str" -> "\"" \o val.v \o "\""
        [] val.t = "int" -> ToString(val.v)
        [] val.t = "arr" -> "[" \o Elems(val.v, 1) \o "]"
        [] val.t = "obj" -> "{" \o Items(val.v, 1) \o "}"

\* json.loads(s), for the documents json.dumps writes from the dictionaries of
\* the parser: objects, arrays, strings without escapes and non-negative
\* integers, with optional whitespace between the tokens.  The result is
\* Some(value), or None for the JSONDecodeError.
JsonWhitespace == {" ", "\t", "\n", "\r"}

SkipWhitespace(s, i) == i + Run(s, i, JsonWhitespace)

\* length of the longest run of characters outside cls that starts at i
RECURSIVE RunOutside(_, _, _)
RunOutside(s, i, cls) ==
  IF i <= Len(s) /\ Ch(s, i) \notin cls THEN 1 + RunOutside(s, i + 1, cls) ELSE 0

\* the outcome of scanning one value: decoded or not, the value, and the
\* position after it
Undecodable == [ok |-> FALSE, val |-> JStr(""), next |-> 0]
Decoded(val, next) == [ok |-> TRUE, val |-> val, next |-> next]

\* a string that starts at the quote at position i; a control character
\* inside it is an error
ScanString(s, i) ==
  LET n == RunOutside(s, i + 1, {"\"", "\\", "\t", "\n", "\r", "\f"})
  IN  IF At(s, i, "\"") /\ At(s, i + 1 + n, "\"")
      THEN Decoded(JStr(SubSeq(s, i + 1, i + n)), i + n + 2)
      ELSE Undecodable

\* an integer that starts at position i: 0, or digits that do not start with 0
ScanNumber(s, i) ==
  LET n == IF At(s, i, "0") THEN 1 ELSE Run(s, i, Digits)
  IN  IF n >= 1 /\ (i + n > Len(s) \/ Ch(s, i + n) \notin {".", "e", "E"})
      THEN Decoded(JInt(ParseInt(SubSeq(s, i, i + n - 1))), i + n)
      ELSE Undecodable

RECURSIVE ScanValue(_, _), ScanMembers(_, _, _), ScanElements(_, _, _)
\* the members of an object from position i, after the members items
ScanMembers(s, i, items) ==
  LET key == ScanString(s, i)
      colon == SkipWhitespace(s, key.next)
      value == ScanValue(s, SkipWhitespace(s, colon + 1))
      after == SkipWhitespace(s, value.next)
      obj == SetItem(JObj(items), key.val.v, value.val)
  IN  IF ~key.ok \/ ~At(s, colon, ":") THEN Undecodable
      ELSE IF ~value.ok THEN Undecodable
      ELSE IF At(s, after, ",") THEN ScanMembers(s, SkipWhitespace(s, after + 1), obj.v)
      ELSE IF At(s, after, "}") THEN Decoded(obj, after + 1)
      ELSE Undecodable

\* the elements of an array from position i, after the elements elems
ScanElements(s, i, elems) ==
  LET value == ScanValue(s, i)
      after == SkipWhitespace(s, value.next)
  IN  IF ~value.ok THEN Undecodable
      ELSE IF At(s, after, ",")
      THEN ScanElements(s, SkipWhitespace(s, after + 1), Append(elems, value.val))
      ELSE IF At(s, after, "]") THEN Decoded(JArr(Append(elems, value.val)), after + 1)
      ELSE Undecodable

ScanValue(s, i) ==
  LET inside == SkipWhitespace(s, i + 1)
  IN  IF At(s, i, "{")
      THEN IF At(s, inside, "}") THEN Decoded(JObj(<<>>), inside + 1)
           ELSE ScanMembers(s, inside, <<>>)
      ELSE IF At(s, i, "[")
      THEN IF At(s, inside, "]") THEN Decoded(JArr(<<>>), inside + 1)
           ELSE ScanElements(s, inside, <<>>)
      ELSE IF At(s, i, "\"") THEN ScanString(s, i)
      ELSE ScanNumber(s, i)

Loads(s) ==
  LET r == ScanValue(s, SkipWhitespace(s, 1))
  IN  IF r.ok /\ SkipWhitespace(s, r.next) = Len(s) + 1 THEN Some(r.val) ELSE None

(***************************************************************************)
(* NLQParser: the classifiers.                                             *)
(***************************************************************************)
UNSUPPORTED_MESSAGE == "Unsupported query. Please rephrase or check available APIs."

unsupported_keywords ==
  <<"create", "delete", "update", "insert", "put", "post", "mapping", "mappings",
    "index", "reindex", "bulk", "scroll", "aggregate", "aggregation", "pipeline",
    "template", "settings", "alias", "aliases", "snapshot", "restore", "backup">>

\* verb\s+(obj|obj|...); no objects for the patterns that end with \s+
modify_patterns ==
  <<[verb |-> "create", objs |-> <<"index", "mapping">>],
    [verb |-> "delete", objs |-> <<"index", "document">>],
    [verb |-> "update", objs |-> <<"mapping", "document", "settings">>],
    [verb |-> "insert", objs |-> <<>>],
    [verb |-> "add", objs |-> <<"field", "mapping", "alias">>],
    [verb |-> "remove", objs |-> <<"field", "mapping", "alias">>],
    [verb |-> "modify", objs |-> <<>>],
    [verb |-> "change", objs |-> <<"mapping", "settings">>]>>

ModifyPatternAt(s, i, p) ==
  LET a == i + Len(p.verb)
      w == Run(s, a, Whitespace)
  IN  /\ At(s, i, p.verb)
      /\ w >= 1
      /\ p.objs = <<>> \/ FirstAlt(s, a + w, p.objs) # 0

_is_unsupported_query(query) ==
  \/ \E k \in 1..Len(unsupported_keywords) : Contains(query, unsupported_keywords[k])
  \/ \E k \in 1..Len(modify_patterns) :
       \E i \in 1..Len(query) : ModifyPatternAt(query, i, modify_patterns[k])

cluster_keywords == <<"cluster health", "cluster status", "node", "shard">>

_is_cluster_query(query) ==
  \E k \in 1..Len(cluster_keywords) : Contains(query, cluster_keywords[k])

\* \bverb\s+noun\b; the last pattern, \bcat\s+, has no noun
cat_patterns ==
  <<[verb |-> "list", noun |-> "indices"], [verb |-> "show", noun |-> "indices"],
    [verb |-> "list", noun |-> "nodes"], [verb |-> "show", noun |-> "nodes"],
    [verb |-> "list", noun |-> "shards"], [verb |-> "show", noun |-> "shards"],
    [verb |-> "cat", noun |-> ""]>>

CatPatternAt(s, i, p) ==
  LET a == i + Len(p.verb)
      w == Run(s, a, Whitespace)
  IN  /\ Boundary(s, i)
      /\ At(s, i, p.verb)
      /\ w >= 1
      /\ p.noun # "" => At(s, a + w, p.noun) /\ Boundary(s, a + w + Len(p.noun))

_is_cat_query(query) ==
  \E k \in 1..Len(cat_patterns) :
    \E i \in 1..Len(query) : CatPatternAt(query, i, cat_patterns[k])

ErrorDict(message) == JObj(<< <<"error", JStr(message)>> >>)
ApiDict(path) == JObj(<< <<"api", JStr(path)>> >>)

\* a _handle_cluster_query that looks for 'node' before 'health' and 'status'
_handle_cluster_query_node_first(query) ==
  IF Contains(query, "node")
  THEN ApiDict("_cat/nodes?v")
  ELSE IF Contains(query, "health") \/ Contains(query, "status")
  THEN ApiDict("_cluster/health")
  ELSE ErrorDict("Unsupported cluster query. Please rephrase or check available APIs.")

_handle_cluster_query(query) ==
  IF Contains(query, "health") \/ Contains(query, "status")
  THEN ApiDict("_cluster/health")
  ELSE IF Contains(query, "node")
  THEN ApiDict("_cat/nodes?v")
  ELSE ErrorDict("Unsupported cluster query. Please rephrase or check available APIs.")

\* a _handle_cat_query that looks for 'index' and not for 'indices'
_handle_cat_query_index_only(query) ==
  IF Contains(query, "index")
  THEN ApiDict("_cat/indices?v")
  ELSE IF Contains(query, "nodes")
  THEN ApiDict("_cat/nodes?v")
  ELSE IF Contains(query, "shards")
  THEN ApiDict("_cat/shards?v")
  ELSE ErrorDict("Unsupported cat query. Please rephrase or check available APIs.")

_handle_cat_query(query) ==
  IF Contains(query, "indices") \/ Contains(query, "index")
  THEN ApiDict("_cat/indices?v")
  ELSE IF Contains(query, "nodes")
  THEN ApiDict("_cat/nodes?v")
  ELSE IF Contains(query, "shards")
  THEN ApiDict("_cat/shards?v")
  ELSE ErrorDict("Unsupported cat query. Please rephrase or check available APIs.")

(***************************************************************************)
(* NLQParser: the facet extractors.                                        *)
(***************************************************************************)
levels == <<"error", "errors", "warn", "warning", "warnings", "info", "debug", "trace">>

\* an _extract_log_level that returns the level word that stands first in
\* the query
_extract_log_level_leftmost(query) ==
  LET found == {k \in 1..Len(levels) : Contains(query, levels[k])}
      place == [k \in found |-> Least({i \in 1..Len(query) : At(query, i, levels[k])})]
      level == levels[CHOOSE k \in found : \A j \in found :
                        place[k] < place[j] \/ (place[k] = place[j] /\ k <= j)]
  IN  IF found = {} THEN None
      ELSE IF level = "errors" THEN Some("error")
      ELSE IF level \in {"warn", "warning", "warnings"} THEN Some("warn")
      ELSE Some(level)

_extract_log_level(query) ==
  LET found == {k \in 1..Len(levels) : Contains(query, levels[k])}
      level == levels[Least(found)]
  IN  IF found = {} THEN None
      ELSE IF level = "errors" THEN Some("error")
      ELSE IF level \in {"warn", "warning", "warnings"} THEN Some("warn")
      ELSE Some(level)

\* prefix\s+([a-zA-Z0-9\-_]+)[-\s]*service at position i, and the same without
\* a prefix (prefix = "").  The greedy token gives characters back until
\* [-\s]*service follows; [-\s]* takes its whole run, since "service" starts
\* with a character outside that class.
ServiceSuffixAt(s, t, l) == At(s, t + l + Run(s, t + l, HyphenSpace), "service")

ServicePatternAt(s, i, prefix) ==
  LET a == i + Len(prefix)
      w == Run(s, a, Whitespace)
      t == IF prefix = "" THEN i ELSE a + w
      n == Run(s, t, TokenChars)
      ok == {l \in 1..n : ServiceSuffixAt(s, t, l)}
      l == CHOOSE x \in ok : \A y \in ok : x >= y
  IN  IF At(s, i, prefix) /\ (prefix = "" \/ w >= 1) /\ ok # {}
      THEN Some([group1 |-> SubSeq(s, t, t + l - 1),
                 end |-> t + l + Run(s, t + l, HyphenSpace) + Len("service")])
      ELSE None

\* the matches in s of the service pattern with that prefix
ServiceMatches(s, prefix) == [i \in 1..Len(s) |-> ServicePatternAt(s, i, prefix)]

\* service\s+([a-zA-Z0-9\-_]+) at position i
ServiceThenNameAt(s, i) ==
  LET a == i + Len("service")
      w == Run(s, a, Whitespace)
      n == Run(s, a + w, TokenChars)
  IN  IF At(s, i, "service") /\ w >= 1 /\ n >= 1
      THEN Some([group1 |-> SubSeq(s, a + w, a + w + n - 1), end |-> a + w + n])
      ELSE None

\* a loop that takes, of the matches of the four patterns, the one that
\* starts leftmost in the query
FirstServiceMatchLeftmost(query) ==
  LET tables == <<ServiceMatches(query, "for"), ServiceMatches(query, "in"),
                  ServiceMatches(query, ""),
                  [i \in 1..Len(query) |-> ServiceThenNameAt(query, i)]>>
      starts == {i \in 1..Len(query) : \E k \in 1..Len(tables) : tables[k][i] # None}
      first == Least(starts)
  IN  IF starts = {} THEN None
      ELSE tables[Least({k \in 1..Len(tables) : tables[k][first] # None})][first]

\* the loop over the four patterns: the first pattern that matches anywhere
FirstServiceMatch(query) ==
  LET m1 == Search(ServiceMatches(query, "for"))
      m2 == Search(ServiceMatches(query, "in"))
      m3 == Search(ServiceMatches(query, ""))
      m4 == Search([i \in 1..Len(query) |-> ServiceThenNameAt(query, i)])
  IN  IF m1 # None THEN m1 ELSE IF m2 # None THEN m2 ELSE IF m3 # None THEN m3 ELSE m4

\* an _extract_service_name that returns the captured group as it is
_extract_service_name_group(query) ==
  LET match == FirstServiceMatch(query)
  IN  IF match = None THEN None ELSE Some(match[1].group1)

\* an _extract_service_name that adds "service" to every captured group
_extract_service_name_suffixed(query) ==
  LET match == FirstServiceMatch(query)
  IN  IF match = None THEN None ELSE Some(match[1].group1 \o "service")

_extract_service_name(query) ==
  LET match == FirstServiceMatch(query)
      service_name == match[1].group1
  IN  IF match = None THEN None
      ELSE IF Ch(service_name, Len(service_name)) = "-"
      THEN Some(service_name \o "service")
      ELSE Some(service_name)

stop_words ==
  {"get", "show", "find", "search", "logs", "log", "details", "of", "in", "for",
   "last", "minutes", "minute", "hours", "hour", "days", "day", "service", "errors",
   "error", "warnings", "warning", "info", "debug", "trace", "the", "and", "with",
   "want", "checkout", "payment", "user", "auth", "authentication", "from", "me",
   "cluster", "health", "status", "list", "nodes", "indices", "shards", "top",
   "results", "limit", "first", "today", "yesterday", "complex", "unsupported",
   "that", "should", "fail", "query", "api", "to", "a", "an", "is", "are", "was",
   "were", "be", "been", "being", "have", "has", "had", "do", "does", "did"}

\* last\s+\d+\s+\w+ at position i
LastAmountWordAt(s, i) ==
  LET a  == i + 4
      w1 == Run(s, a, Whitespace)
      n  == Run(s, a + w1, Digits)
      w2 == Run(s, a + w1 + n, Whitespace)
      u  == a + w1 + n + w2
      m  == Run(s, u, WordChars)
  IN  IF At(s, i, "last") /\ w1 >= 1 /\ n >= 1 /\ w2 >= 1 /\ m >= 1
      THEN Some([end |-> u + m])
      ELSE None

LiteralAt(s, i, lit) == IF At(s, i, lit) THEN Some([end |-> i + Len(lit)]) ELSE None
LiteralMatches(s, lit) == [i \in 1..Len(s) |-> LiteralAt(s, i, lit)]

\* \b(error|errors|warn|warning|warnings|info|debug|trace)\b at position i:
\* the first alternative that is followed by a word boundary
LevelWordAt(s, i) ==
  LET ok == {k \in 1..Len(levels) :
               At(s, i, levels[k]) /\ Boundary(s, i + Len(levels[k]))}
  IN  IF Boundary(s, i) /\ ok # {}
      THEN Some([end |-> i + Len(levels[Least(ok)])])
      ELSE None

\* re.findall(r'\b[a-zA-Z]+\b', s): the runs of letters that have a word
\* boundary on both sides
RECURSIVE FindWords(_, _)
FindWords(s, i) ==
  LET n == Run(s, i, Letters)
  IN  IF i > Len(s) THEN <<>>
      ELSE IF Boundary(s, i) /\ n >= 1 /\ Boundary(s, i + n)
      THEN <<SubSeq(s, i, i + n - 1)>> \o FindWords(s, i + n)
      ELSE FindWords(s, i + 1)

\* re.match(r'\d+', word)
StartsWithDigits(word) == Run(word, 1, Digits) >= 1

\* the query with the service, time and level sub-phrases removed
CleanedQuery(query) ==
  LET t0 == lower(query)
      t1 == Sub(t0, ServiceMatches(t0, "for"), 1)
      t2 == Sub(t1, ServiceMatches(t1, "in"), 1)
      t3 == Sub(t2, ServiceMatches(t2, ""), 1)
      t4 == Sub(t3, [i \in 1..Len(t3) |-> LastAmountWordAt(t3, i)], 1)
      t5 == Sub(t4, LiteralMatches(t4, "today"), 1)
      t6 == Sub(t5, LiteralMatches(t5, "yesterday"), 1)
  IN  Sub(t6, [i \in 1..Len(t6) |-> LevelWordAt(t6, i)], 1)

\* the loop of lines 366-370 over words[i..]
RECURSIVE KeptWords(_, _)
KeptWords(words, i) ==
  IF i > Len(words) THEN <<>>
  ELSE (IF /\ lower(words[i]) \notin stop_words
           /\ Len(words[i]) > 2
           /\ ~StartsWithDigits(words[i])
        THEN <<words[i]>> ELSE <<>>) \o KeptWords(words, i + 1)

\* an _extract_search_terms that keeps the first occurrence of a word only
_extract_search_terms_deduplicated(query) ==
  LET words == KeptWords(FindWords(CleanedQuery(query), 1), 1)
      again == {i \in 1..Len(words) : \E j \in 1..(i - 1) : words[j] = words[i]}
      place == [k \in 1..(Len(words) - Cardinality(again)) |->
                  CHOOSE i \in (1..Len(words)) \ again :
                    Cardinality({j \in (1..Len(words)) \ again : j <= i}) = k]
  IN  [k \in 1..Len(place) |-> words[place[k]]]

_extract_search_terms(query) == KeptWords(FindWords(CleanedQuery(query), 1), 1)

\* keyword\s+(\d+) at position i, followed by \s+tail when tail is not empty:
\* show\s+(\d+)\s+results? has the tail "result", the other three have none
SizePatternAt(s, i, keyword, tail) ==
  LET a == i + Len(keyword)
      w == Run(s, a, Whitespace)
      n == Run(s, a + w, Digits)
      w2 == Run(s, a + w + n, Whitespace)
  IN  IF /\ At(s, i, keyword) /\ w >= 1 /\ n >= 1
         /\ tail # "" => w2 >= 1 /\ At(s, a + w + n + w2, tail)
      THEN Some([group1 |-> SubSeq(s, a + w, a + w + n - 1)])
      ELSE None

SizeMatches(s, keyword, tail) == [i \in 1..Len(s) |-> SizePatternAt(s, i, keyword, tail)]

\* an _extract_size whose pattern list lacks top\s+(\d+)
_extract_size_without_top(query) ==
  LET m1 == Search(SizeMatches(query, "show", "result"))
      m2 == Search(SizeMatches(query, "limit", ""))
      m4 == Search(SizeMatches(query, "first", ""))
      match == IF m1 # None THEN m1 ELSE IF m2 # None THEN m2 ELSE m4
  IN  IF match = None THEN None ELSE Some(ParseInt(match[1].group1))

\* an _extract_size that takes, of the matches of the four patterns, the one
\* that starts leftmost in the query
_extract_size_leftmost(query) ==
  LET tables == <<SizeMatches(query, "show", "result"), SizeMatches(query, "limit", ""),
                  SizeMatches(query, "top", ""), SizeMatches(query, "first", "")>>
      starts == {i \in 1..Len(query) : \E k \in 1..Len(tables) : tables[k][i] # None}
      first == Least(starts)
      match == tables[Least({k \in 1..Len(tables) : tables[k][first] # None})][first]
  IN  IF starts = {} THEN None ELSE Some(ParseInt(match[1].group1))

\* the loop over the four patterns: the first pattern that matches anywhere
_extract_size(query) ==
  LET m1 == Search(SizeMatches(query, "show", "result"))
      m2 == Search(SizeMatches(query, "limit", ""))
      m3 == Search(SizeMatches(query, "top", ""))
      m4 == Search(SizeMatches(query, "first", ""))
      match == IF m1 # None THEN m1 ELSE IF m2 # None THEN m2
               ELSE IF m3 # None THEN m3 ELSE m4
  IN  IF match = None THEN None ELSE Some(ParseInt(match[1].group1))

(***************************************************************************)
(* NLQParser.parse as one pass, the way a call runs when nothing else      *)
(* does.  A natural_query is Some(string), or None for a value that is     *)
(* not a string (its .lower() raises).                                     *)
(***************************************************************************)
\* the clauses of lines 176-199, in the order they are appended
SearchClauses(query) ==
  LET log_level == _extract_log_level(query)
      service_name == _extract_service_name(query)
      time_filter == build_time_range(query)
      search_terms == _extract_search_terms(query)
  IN  (IF log_level # None THEN <<build_log_level_filter(log_level[1])>> ELSE <<>>)
      \o (IF service_name # None THEN <<build_service_filter(service_name[1])>> ELSE <<>>)
      \o (IF time_filter # None THEN <<time_filter[1]>> ELSE <<>>)
      \o [i \in 1..Len(search_terms) |-> build_text_search(search_terms[i], "_all")]

\* _parse_to_dict: the dictionary returned, or raised = TRUE
_parse_to_dict(qb, natural_query) ==
  LET query == strip(lower(natural_query[1]))
      base == build_base_query(qb, None)
      size == _extract_size(query)
      sized == IF size # None /\ size[1] # 0 THEN SetItem(base, "size", JInt(size[1])) ELSE base
      must_clauses == SearchClauses(query)
  IN  IF natural_query = None THEN [raised |-> TRUE, value |-> JObj(<<>>)]
      ELSE [raised |-> FALSE,
            value |->
              IF _is_unsupported_query(query) THEN ErrorDict(UNSUPPORTED_MESSAGE)
              ELSE IF _is_cluster_query(query) THEN _handle_cluster_query(query)
              ELSE IF _is_cat_query(query) THEN _handle_cat_query(query)
              ELSE IF must_clauses # <<>>
              THEN SetItem(sized, "query", build_bool_query(must_clauses, <<>>, <<>>, <<>>))
              ELSE SetItem(sized, "query", JObj(<< <<"match_all", JObj(<<>>)>> >>))]

\* json.dumps(query_dict, separators=(',', ':'))
DumpsCompact(val) == Dumps(val, ",", ":")
\* json.dumps(query_dict): the default separators
DumpsDefault(val) == Dumps(val, ", ", ": ")

parse(qb, natural_query) ==
  LET r == _parse_to_dict(qb, natural_query)
  IN  IF r.raised THEN DumpsDefault(ErrorDict(UNSUPPORTED_MESSAGE))
      ELSE DumpsCompact(r.value)

(***************************************************************************)
(* The state: the NLQParser instances, the process-wide 'nlq_parser'       *)
(* logger they share, and the parse calls in progress with their locals.   *)
(***************************************************************************)
NParsers == 2
NCalls == 2
Parsers == 1..NParsers
Calls == 1..NCalls

VARIABLES
  parsers,   \* per instance: constructed, enable_logging, query_builder
  logger,    \* logging.getLogger('nlq_parser'): level, handlers, propagate
  pc,        \* per call: where the call stands in parse
  frame,     \* per call: self, natural_query and the locals of _parse_to_dict
  out,       \* per call: the string parse returned
  records,   \* per call: the levels of the log records the call emitted
  queries    \* per call: the OpenSearchNLQClient.query that made it, if one did

vars == <<parsers, logger, pc, frame, out, records, queries>>

\* the level numbers of the logging module
LEVEL == [NOTSET |-> 0, DEBUG |-> 10, INFO |-> 20, WARNING |-> 30, CRITICAL |-> 50]

\* Logger.isEnabledFor and Logger.callHandlers: a logger whose level is NOTSET
\* takes the root's WARNING; with no handler the record goes to
\* logging.lastResort, which writes WARNING and above
Emits(lg, levelno) ==
  /\ levelno >= (IF lg.level = LEVEL.NOTSET THEN LEVEL.WARNING ELSE lg.level)
  /\ lg.handlers > 0 \/ levelno >= LEVEL.WARNING

\* the records of a call, after it logged at each of levelnos
Logged(recs, lg, levelnos) == recs \cup {l \in levelnos : Emits(lg, l)}

FreshLogger == [level |-> LEVEL.NOTSET, handlers |-> 0, propagate |-> TRUE]
NoParser == [constructed |-> FALSE, enable_logging |-> FALSE, query_builder |-> NewQueryBuilder]

\* NLQParser.__init__: what it does to the shared logger
LoggerAfterInit(lg, enable_logging) ==
  IF enable_logging
  THEN [level |-> LEVEL.INFO, handlers |-> 1, propagate |-> FALSE]
  ELSE [lg EXCEPT !.level = LEVEL.CRITICAL + 1, !.propagate = FALSE]

NewParser(enable_logging) ==
  [constructed |-> TRUE, enable_logging |-> enable_logging, query_builder |-> NewQueryBuilder]

\* a call that is being made, as against one that has not started or has returned
InProgress(c) == pc[c] \notin {"idle", "done"}

\* The locals of a call.  overlapped is not a local: it records, for the
\* properties of concurrent calls, that another call was in progress during
\* this one.
IdleFrame ==
  [self |-> 0, natural_query |-> None, query |-> "", result |-> JObj(<<>>),
   must_clauses |-> <<>>, query_dict |-> JObj(<<>>), overlapped |-> FALSE]

\* What a query of the client returned, or raised: the string of parse, a
\* dict, or the exception that left query.
NoValue == [kind |-> "none", text |-> "", value |-> JObj(<<>>)]
Text(query_json) == [kind |-> "str", text |-> query_json, value |-> JObj(<<>>)]
Dict(value) == [kind |-> "dict", text |-> "", value |-> value]
Raised(e) == [kind |-> "raised", text |-> e, value |-> JObj(<<>>)]

\* no query: the defaults of the parameters of query
IdleQuery ==
  [stage |-> "idle", natural_language_query |-> None, index |-> "*",
   execute |-> TRUE, requests |-> <<>>, responses |-> <<>>, returned |-> NoValue]

\* NLQParser(enable_logging): a new instance in slot p
Construct(p, enable_logging) ==
  /\ ~parsers[p].constructed
  /\ parsers' = [parsers EXCEPT ![p] = NewParser(enable_logging)]
  /\ logger' = LoggerAfterInit(logger, enable_logging)
  /\ UNCHANGED <<pc, frame, out, records, queries>>

\* parser.parse(natural_query) is entered: line 139.  Who entered it, a
\* caller of the parser or a query of the client, is said by the caller.
Begin(c, p, natural_query) ==
  /\ pc[c] \in {"idle", "done"}
  /\ parsers[p].constructed
  /\ pc' = [pc EXCEPT ![c] = "parse"]
  /\ frame' = [d \in Calls |->
       IF d = c
       THEN [IdleFrame EXCEPT !.self = p, !.natural_query = natural_query,
                              !.overlapped = \E e \in Calls \ {c} : InProgress(e)]
       ELSE IF InProgress(d) THEN [frame[d] EXCEPT !.overlapped = TRUE]
       ELSE frame[d]]
  /\ out' = [out EXCEPT ![c] = ""]
  /\ records' = [records EXCEPT ![c] = Logged({}, logger, {LEVEL.INFO})]
  /\ UNCHANGED <<parsers, logger>>

\* a Normalize that keeps the query in an attribute of the instance, which
\* every call in progress on that instance reads
NormalizeIntoInstance(c) ==
  /\ pc[c] = "parse"
  /\ IF frame[c].natural_query = None
     THEN /\ pc' = [pc EXCEPT ![c] = "except"]
          /\ UNCHANGED frame
     ELSE /\ pc' = [pc EXCEPT ![c] = "unsupported_check"]
          /\ frame' = [d \in Calls |->
               IF d = c \/ (frame[d].self = frame[c].self /\ InProgress(d))
               THEN [frame[d] EXCEPT !.query = strip(lower(frame[c].natural_query[1]))]
               ELSE frame[d]]
  /\ UNCHANGED <<parsers, logger, out, records, queries>>

\* line 157: query = natural_query.lower().strip(), which raises on a non-string
Normalize(c) ==
  /\ pc[c] = "parse"
  /\ IF frame[c].natural_query = None
     THEN /\ pc' = [pc EXCEPT ![c] = "except"]
          /\ UNCHANGED frame
     ELSE /\ pc' = [pc EXCEPT ![c] = "unsupported_check"]
          /\ frame' = [frame EXCEPT ![c].query = strip(lower(frame[c].natural_query[1]))]
  /\ UNCHANGED <<parsers, logger, out, records, queries>>

\* a CheckUnsupported that lets the cluster and cat triggers go first
CheckUnsupportedAfterAdmin(c) ==
  /\ pc[c] = "unsupported_check"
  /\ IF /\ _is_unsupported_query(frame[c].query)
        /\ ~_is_cluster_query(frame[c].query)
        /\ ~_is_cat_query(frame[c].query)
     THEN /\ pc' = [pc EXCEPT ![c] = "dumps"]
          /\ frame' = [frame EXCEPT ![c].query_dict = ErrorDict(UNSUPPORTED_MESSAGE)]
          /\ records' = [records EXCEPT ![c] = Logged(@, logger, {LEVEL.DEBUG})]
     ELSE /\ pc' = [pc EXCEPT ![c] = "admin_check"]
          /\ frame' = [frame EXCEPT
               ![c].result = build_base_query(parsers[frame[c].self].query_builder, None),
               ![c].must_clauses = <<>>]
          /\ UNCHANGED records
  /\ UNCHANGED <<parsers, logger, out, queries>>

\* lines 160-166: the unsupported check, then the base query
CheckUnsupported(c) ==
  /\ pc[c] = "unsupported_check"
  /\ IF _is_unsupported_query(frame[c].query)
     THEN /\ pc' = [pc EXCEPT ![c] = "dumps"]
          /\ frame' = [frame EXCEPT ![c].query_dict = ErrorDict(UNSUPPORTED_MESSAGE)]
          /\ records' = [records EXCEPT ![c] = Logged(@, logger, {LEVEL.DEBUG})]
     ELSE /\ pc' = [pc EXCEPT ![c] = "admin_check"]
          /\ frame' = [frame EXCEPT
               ![c].result = build_base_query(parsers[frame[c].self].query_builder, None),
               ![c].must_clauses = <<>>]
          /\ UNCHANGED records
  /\ UNCHANGED <<parsers, logger, out, queries>>

\* a CheckAdmin that asks the cat patterns before the cluster triggers
CheckAdminCatFirst(c) ==
  /\ pc[c] = "admin_check"
  /\ IF _is_cat_query(frame[c].query)
     THEN /\ pc' = [pc EXCEPT ![c] = "dumps"]
          /\ frame' = [frame EXCEPT ![c].query_dict = _handle_cat_query(frame[c].query)]
          /\ records' = [records EXCEPT ![c] = Logged(@, logger, {LEVEL.DEBUG})]
     ELSE IF _is_cluster_query(frame[c].query)
     THEN /\ pc' = [pc EXCEPT ![c] = "dumps"]
          /\ frame' = [frame EXCEPT ![c].query_dict = _handle_cluster_query(frame[c].query)]
          /\ records' = [records EXCEPT ![c] = Logged(@, logger, {LEVEL.DEBUG})]
     ELSE /\ pc' = [pc EXCEPT ![c] = "log_level"]
          /\ UNCHANGED <<frame, records>>
  /\ UNCHANGED <<parsers, logger, out, queries>>

\* lines 169-174: cluster API, cat API, or on to the extractors
CheckAdmin(c) ==
  /\ pc[c] = "admin_check"
  /\ IF _is_cluster_query(frame[c].query)
     THEN /\ pc' = [pc EXCEPT ![c] = "dumps"]
          /\ frame' = [frame EXCEPT ![c].query_dict = _handle_cluster_query(frame[c].query)]
          /\ records' = [records EXCEPT ![c] = Logged(@, logger, {LEVEL.DEBUG})]
     ELSE IF _is_cat_query(frame[c].query)
     THEN /\ pc' = [pc EXCEPT ![c] = "dumps"]
          /\ frame' = [frame EXCEPT ![c].query_dict = _handle_cat_query(frame[c].query)]
          /\ records' = [records EXCEPT ![c] = Logged(@, logger, {LEVEL.DEBUG})]
     ELSE /\ pc' = [pc EXCEPT ![c] = "log_level"]
          /\ UNCHANGED <<frame, records>>
  /\ UNCHANGED <<parsers, logger, out, queries>>

\* an extractor step that puts the clauses it found in front of the others
AppendClausesInFront(c, here, next, clauses) ==
  /\ pc[c] = here
  /\ pc' = [pc EXCEPT ![c] = next]
  /\ frame' = [frame EXCEPT ![c].must_clauses = clauses \o @]
  /\ records' = [records EXCEPT ![c] =
                   IF clauses # <<>> THEN Logged(@, logger, {LEVEL.DEBUG}) ELSE @]
  /\ UNCHANGED <<parsers, logger, out, queries>>

\* an extractor step of lines 176-199: the clauses it found are appended
AppendClauses(c, here, next, clauses) ==
  /\ pc[c] = here
  /\ pc' = [pc EXCEPT ![c] = next]
  /\ frame' = [frame EXCEPT ![c].must_clauses = @ \o clauses]
  /\ records' = [records EXCEPT ![c] =
                   IF clauses # <<>> THEN Logged(@, logger, {LEVEL.DEBUG}) ELSE @]
  /\ UNCHANGED <<parsers, logger, out, queries>>

\* lines 177-180
ExtractLogLevel(c) ==
  LET log_level == _extract_log_level(frame[c].query)
  IN  AppendClauses(c, "log_level", "service_name",
        IF log_level # None THEN <<build_log_level_filter(log_level[1])>> ELSE <<>>)

\* lines 183-186
ExtractServiceName(c) ==
  LET service_name == _extract_service_name(frame[c].query)
  IN  AppendClauses(c, "service_name", "time_range",
        IF service_name # None THEN <<build_service_filter(service_name[1])>> ELSE <<>>)

\* lines 189-192
ExtractTimeRange(c) ==
  LET time_filter == build_time_range(frame[c].query)
  IN  AppendClauses(c, "time_range", "search_terms",
        IF time_filter # None THEN <<time_filter[1]>> ELSE <<>>)

\* lines 195-199
ExtractSearchTerms(c) ==
  LET search_terms == _extract_search_terms(frame[c].query)
  IN  AppendClauses(c, "search_terms", "size",
        [i \in 1..Len(search_terms) |-> build_text_search(search_terms[i], "_all")])

\* an ExtractSize that stores the size in the builder of the instance, as its
\* default_size, besides the result
ExtractSizeIntoBuilder(c) ==
  LET size == _extract_size(frame[c].query)
  IN  /\ pc[c] = "size"
      /\ pc' = [pc EXCEPT ![c] = "build"]
      /\ IF size # None /\ size[1] # 0
         THEN /\ frame' = [frame EXCEPT ![c].result = SetItem(@, "size", JInt(size[1]))]
              /\ parsers' = [parsers EXCEPT
                               ![frame[c].self].query_builder.default_size = size[1]]
              /\ records' = [records EXCEPT ![c] = Logged(@, logger, {LEVEL.DEBUG})]
         ELSE UNCHANGED <<frame, records, parsers>>
      /\ UNCHANGED <<logger, out, queries>>

\* an ExtractSize that stores every size that was extracted, 0 too
ExtractSizeAlsoZero(c) ==
  LET size == _extract_size(frame[c].query)
  IN  /\ pc[c] = "size"
      /\ pc' = [pc EXCEPT ![c] = "build"]
      /\ IF size # None
         THEN /\ frame' = [frame EXCEPT ![c].result = SetItem(@, "size", JInt(size[1]))]
              /\ records' = [records EXCEPT ![c] = Logged(@, logger, {LEVEL.DEBUG})]
         ELSE UNCHANGED <<frame, records>>
      /\ UNCHANGED <<parsers, logger, out, queries>>

\* lines 202-205: a size that is None or 0 leaves the default
ExtractSize(c) ==
  LET size == _extract_size(frame[c].query)
  IN  /\ pc[c] = "size"
      /\ pc' = [pc EXCEPT ![c] = "build"]
      /\ IF size # None /\ size[1] # 0
         THEN /\ frame' = [frame EXCEPT ![c].result = SetItem(@, "size", JInt(size[1]))]
              /\ records' = [records EXCEPT ![c] = Logged(@, logger, {LEVEL.DEBUG})]
         ELSE UNCHANGED <<frame, records>>
      /\ UNCHANGED <<parsers, logger, out, queries>>

\* a BuildFinal that builds the bool query also from an empty clause list
BuildFinalAlwaysBool(c) ==
  /\ pc[c] = "build"
  /\ pc' = [pc EXCEPT ![c] = "dumps"]
  /\ frame' = [frame EXCEPT ![c].query_dict =
       SetItem(frame[c].result, "query",
               build_bool_query(frame[c].must_clauses, <<>>, <<>>, <<>>))]
  /\ records' = [records EXCEPT ![c] = Logged(@, logger, {LEVEL.DEBUG})]
  /\ UNCHANGED <<parsers, logger, out, queries>>

\* lines 208-216: the bool query, or match_all when no clause was found
BuildFinal(c) ==
  /\ pc[c] = "build"
  /\ pc' = [pc EXCEPT ![c] = "dumps"]
  /\ frame' = [frame EXCEPT ![c].query_dict =
       IF frame[c].must_clauses # <<>>
       THEN SetItem(frame[c].result, "query",
                    build_bool_query(frame[c].must_clauses, <<>>, <<>>, <<>>))
       ELSE SetItem(frame[c].result, "query", JObj(<< <<"match_all", JObj(<<>>)>> >>))]
  /\ records' = [records EXCEPT ![c] = Logged(@, logger, {LEVEL.DEBUG})]
  /\ UNCHANGED <<parsers, logger, out, queries>>

\* lines 143-148: the compact serialization is returned
Serialize(c) ==
  /\ pc[c] = "dumps"
  /\ pc' = [pc EXCEPT ![c] = "done"]
  /\ out' = [out EXCEPT ![c] = DumpsCompact(frame[c].query_dict)]
  /\ records' = [records EXCEPT ![c] = Logged(@, logger, {LEVEL.INFO})]
  /\ UNCHANGED <<parsers, logger, frame, queries>>

\* a handler that tries the call again
ExceptRetries(c) ==
  /\ pc[c] = "except"
  /\ pc' = [pc EXCEPT ![c] = "parse"]
  /\ records' = [records EXCEPT ![c] = Logged(@, logger, {LEVEL.WARNING, LEVEL.INFO})]
  /\ UNCHANGED <<parsers, logger, frame, out, queries>>

\* lines 149-153: the handler of every exception
Except(c) ==
  /\ pc[c] = "except"
  /\ pc' = [pc EXCEPT ![c] = "done"]
  /\ out' = [out EXCEPT ![c] = DumpsDefault(ErrorDict(UNSUPPORTED_MESSAGE))]
  /\ records' = [records EXCEPT ![c] = Logged(@, logger, {LEVEL.WARNING, LEVEL.INFO})]
  /\ UNCHANGED <<parsers, logger, frame, queries>>

\* the caller drops the returned string
Return(c) ==
  /\ pc[c] = "done"
  /\ pc' = [pc EXCEPT ![c] = "idle"]
  /\ frame' = [frame EXCEPT ![c] = IdleFrame]
  /\ out' = [out EXCEPT ![c] = ""]
  /\ records' = [records EXCEPT ![c] = {}]
  /\ UNCHANGED <<parsers, logger, queries>>

\* one step of a call that is in progress
Step(c) ==
  \/ Normalize(c)
  \/ CheckUnsupported(c)
  \/ CheckAdmin(c)
  \/ ExtractLogLevel(c)
  \/ ExtractServiceName(c)
  \/ ExtractTimeRange(c)
  \/ ExtractSearchTerms(c)
  \/ ExtractSize(c)
  \/ BuildFinal(c)
  \/ Serialize(c)
  \/ Except(c)

(***************************************************************************)
(* OpenSearchNLQClient.query.  The client owns one NLQParser and one       *)
(* connection; of the connection the model keeps the calls a query made on *)
(* it and lets each call answer or fail.  The client's own logger          *)
(* ('opensearch_client') is a different logger from the parser's and is    *)
(* left out.                                                               *)
(***************************************************************************)
\* self.nlq_parser
ClientParser == CHOOSE p \in Parsers : \A q \in Parsers : p <= q

\* what a call on the connection can do: answer, raise an
\* OpenSearchException, raise another exception
Outcomes == {"response", "OpenSearchException", "Exception"}

\* the answers of the cluster, as far as query passes them on
HealthResponse == JObj(<< <<"status", JStr("green")>> >>)
SearchResponse ==
  JObj(<< <<"hits", JObj(<< <<"total", JObj(<< <<"value", JInt(0)>> >>)>> >>)>> >>)
IndexListings == {<<>>, <<JStr("logs-1")>>, <<JStr("logs-1"), JStr("logs-2")>>}

\* what a branch of query did: the calls made on the connection and what
\* went back to the caller
Answer(requests, returned) == [requests |-> requests, returned |-> returned]

\* get_cluster_health: the exception of the connection is raised again
get_cluster_health(outcome) ==
  Answer(<<"cluster.health">>,
         IF outcome = "response" THEN Dict(HealthResponse) ELSE Raised(outcome))

\* {"indices": self.list_indices()}: the exception of the connection is
\* raised again
list_indices(outcome, listing) ==
  Answer(<<"cat.indices">>,
         IF outcome = "response"
         THEN Dict(JObj(<< <<"indices", JArr(listing)>> >>))
         ELSE Raised(outcome))

\* _execute_search: an OpenSearchException becomes an error dict, any other
\* exception leaves the method
_execute_search(query_dict, index, outcome) ==
  Answer(<<"search">>,
         CASE outcome = "response" -> Dict(SearchResponse)
           [] outcome = "OpenSearchException" ->
                Dict(JObj(<< <<"error", JStr("OpenSearch query failed: " \o outcome)>>,
                             <<"query", query_dict>>,
                             <<"index", JStr(index)>> >>))
           [] OTHER -> Raised(outcome))

\* an error branch that hands the dict back whatever execute says
ErrorAnswerAlwaysDict(query_dict, query_json, execute) == Answer(<<>>, Dict(query_dict))

\* lines 203-204: return query_dict if execute else query_json
ErrorAnswer(query_dict, query_json, execute) ==
  Answer(<<>>, IF execute THEN Dict(query_dict) ELSE Text(query_json))

\* lines 179-214: what query does with the string parse returned
QueryAnswer(query_json, index, execute, outcome, listing) ==
  LET decoded == Loads(query_json)
      query_dict == decoded[1]
      api == Get(query_dict, "api").v
  IN  IF decoded = None
      THEN Answer(<<>>, IF execute
                        THEN Dict(JObj(<< <<"error", JStr("Invalid query generated")>> >>))
                        ELSE Text(query_json))
      ELSE IF HasKey(query_dict, "api") /\ Contains(api, "_cluster/health")
      THEN IF execute THEN get_cluster_health(outcome) ELSE Answer(<<>>, Text(query_json))
      ELSE IF HasKey(query_dict, "api") /\ Contains(api, "_cat/")
                /\ Contains(api, "_cat/indices")
      THEN IF execute THEN list_indices(outcome, listing) ELSE Answer(<<>>, Text(query_json))
      ELSE IF HasKey(query_dict, "error")
      THEN ErrorAnswer(query_dict, query_json, execute)
      ELSE IF execute THEN _execute_search(query_dict, index, outcome)
           ELSE Answer(<<>>, Text(query_json))

\* query(natural_language_query, index, execute) is entered and calls
\* self.nlq_parser.parse: lines 173-176
QueryBegin(c, natural_language_query, index, execute) ==
  /\ queries[c].stage # "called"
  /\ Begin(c, ClientParser, natural_language_query)
  /\ queries' = [queries EXCEPT ![c] =
       [IdleQuery EXCEPT !.stage = "called",
                         !.natural_language_query = natural_language_query,
                         !.index = index, !.execute = execute]]

\* parse has returned: lines 179-214, to the return or the raise
QueryFinish(c) ==
  /\ queries[c].stage = "called"
  /\ pc[c] = "done"
  /\ \E outcome \in Outcomes, listing \in IndexListings :
       LET answer == QueryAnswer(out[c], queries[c].index, queries[c].execute,
                                 outcome, listing)
       IN  queries' = [queries EXCEPT ![c] =
             [@ EXCEPT !.stage = "returned", !.requests = answer.requests,
                       !.returned = answer.returned]]
  /\ UNCHANGED <<parsers, logger, pc, frame, out, records>>

(***************************************************************************)
(* The utterances the callers pass to parse.                               *)
(***************************************************************************)
MaxWords == 2
MaxAmount == 11

\* the strings made of at most n entries of vocab, joined by single spaces
RECURSIVE Phrases(_, _)
Phrases(vocab, n) ==
  IF n = 0 THEN {""}
  ELSE LET shorter == Phrases(vocab, n - 1)
       IN  shorter \cup vocab
             \cup {a \o " " \o b : a \in vocab, b \in shorter \ {""}}

\* words that decide the classification, alone and next to each other
ClassifierWords ==
  {"compute", "add field", "cluster health", "cluster", "status", "nodes",
   "shard", "list", "show", "indices", "shards", "cat"}

\* words that the facet extractors look for, alone and next to each other
FacetWords ==
  {"errors", "warning", "for", "x-service", "pay service", "service",
   "last 5 minutes", "today", "yesterday", "top 5", "timeout"}

Amounts == {ToString(n) : n \in 0..MaxAmount}
UnitWords == {TimeUnits[i] : i \in 1..Len(TimeUnits)}

\* every unsupported keyword, alone, inside a longer word, and after a
\* cluster trigger, a cat pattern or facet words; every mutating-verb pattern
KeywordUtterances ==
  UNION {{kw, "x" \o kw \o "y", "cluster health " \o kw, "list nodes " \o kw,
          "errors in last 5 minutes for " \o kw \o "-service"} :
         kw \in {unsupported_keywords[k] : k \in 1..Len(unsupported_keywords)}}
  \cup UNION {{modify_patterns[k].verb \o " " \o obj,
               "list shards and " \o modify_patterns[k].verb \o "  " \o obj \o " now"} :
              k \in 1..Len(modify_patterns),
              obj \in {"field", "document", "alias", "it", "index"}}

\* last N unit, alone and with a level word; today and yesterday
TimeUtterances ==
  {"last " \o n \o " " \o u : n \in Amounts, u \in UnitWords}
  \cup {"warnings in last " \o n \o " " \o u : n \in {"5"}, u \in UnitWords}
  \cup {"today", "yesterday", "errors today", "debug logs from yesterday"}

\* the four size phrases with every amount
SizeUtterances ==
  {"top " \o n \o " errors" : n \in Amounts}
  \cup {kw \o " " \o n : kw \in {"limit", "first", "top"}, n \in Amounts}
  \cup {"show " \o n \o " results" : n \in Amounts}
  \cup {"show top " \o n \o " errors in last 10 minutes" : n \in Amounts \cup {"100", "007"}}
  \cup {"show top 100 logs", "top 5 errors limit 20", "stop 5 errors"}

\* the utterances of the tests and examples, with their case and padding
ScenarioUtterances ==
  {"I want to get details of errors in last 5 minutes for checkout-service",
   "errors in last 5 minutes for checkout-service",
   "create a new index with custom mappings",
   "Cluster Health", " LIST  Nodes\t", "list indices", "Show Indices ", "cat foo",
   "show logs", "   "}

\* the cat patterns inside longer utterances, and next to what is not one
AdminUtterances ==
  {"cat the indices", "please show  indices now", "Cat all indices for x-service",
   "list indices errors in last 5 minutes", "list indices status", "list indicesx",
   "bobcat indices", "cat indices and shards", "show\tshards", "list shards today",
   "show nodes", "indices list"}

\* search terms before, after and around the level, service and time phrases
TermUtterances ==
  {"timeout errors", "timeout timeout", "alpha for x service beta",
   "connection timeout errors in last 5 minutes for x-service",
   "errors in last 5 minutes for x-service connection refused",
   "refused connection warnings for pay service today"}

\* several level words in one utterance, in an order that is not that of the
\* scan list, and level words inside longer words
LevelUtterances ==
  {"debug then error", "trace info", "warnings and errors", "info warning",
   "debug trace", "trace debug warn", "terror", "information", "retrace my steps",
   "Debug WARNINGS"}

\* service phrases: several in one utterance, so that a later pattern matches
\* further left than an earlier one; with and without a hyphen before
\* 'service'; 'service' with nothing to capture
ServiceUtterances ==
  {"pay service for x-service", "in pay service x", "service foo",
   "alpha service in beta service", "service x for y service",
   "service in pay service", "pay-service in web service", "service", "services",
   "my service", "x -service", "x- service", "logs for my-x-service", "x--service",
   "a_b-service", "for x - service", "abc -service", "microservice b",
   "X-Service logs", "for the x-service", "login x-service"}

\* 'last N <unit>', 'today' and 'yesterday' next to each other, in every
\* order, and 'last' phrases that the pattern does not match
PrecedenceUtterances ==
  {"yesterday last 3 hours today", "today and yesterday", "yesterday or today",
   "last x minutes today", "last 5 today", "last 5 parsecs yesterday",
   "last5 minutes yesterday", "todays logs", "logs of yesterdays run"}

\* several size phrases in one utterance, in an order that is not that of the
\* pattern list, and size phrases that carry 0
SizeOrderUtterances ==
  {"limit 20 top 5", "first 3 show 7 results", "first 3 top 4", "top 4 first 3",
   "show 7 result limit 2", "show 7 rows limit 2", "top 0 limit 3", "limit 0 top 3",
   "first 9 limit 8 top 7 show 6 results"}

\* A search utterance made of a level word, 'last N <unit>', 'for
\* <name>-service' and stop-words: the stop-words before, between and after,
\* the service phrase last or first.
SearchText(t) ==
  IF t.service_first
  THEN t.before \o "for " \o t.name \o "-service " \o t.between \o t.level
         \o " in last " \o t.amount \o " " \o t.unit \o t.after
  ELSE t.before \o t.level \o " in last " \o t.amount \o " " \o t.unit \o " "
         \o t.between \o "for " \o t.name \o "-service" \o t.after

LevelWords == {levels[k] : k \in 1..Len(levels)}

\* stop-words of lines 327-336, in the places of a search utterance
StopWordsBefore ==
  {"", "I want to get details of ", "show me the logs with ", "find ",
   "nodes ", "list shards and ", "cluster health ", "show indices "}
StopWordsBetween == {"", "and ", "for the service ", "for service "}
StopWordsAfter == {"", " today", " from the user api"}

\* every level word with every unit; every placing of the stop-words
SearchTemplates ==
  {[before |-> "", between |-> "", after |-> "", service_first |-> FALSE,
    level |-> lv, amount |-> "5", unit |-> u, name |-> "checkout"] :
     lv \in LevelWords, u \in UnitWords}
  \cup {[before |-> b, between |-> m, after |-> a, service_first |-> f,
         level |-> "errors", amount |-> ToString(MaxAmount), unit |-> "hrs",
         name |-> "web-api2"] :
        b \in StopWordsBefore, m \in StopWordsBetween, a \in StopWordsAfter,
        f \in BOOLEAN}

SearchUtterances == {SearchText(t) : t \in SearchTemplates}

Utterances ==
  Phrases(ClassifierWords, MaxWords) \cup Phrases(FacetWords, MaxWords)
    \cup KeywordUtterances \cup TimeUtterances \cup SizeUtterances
    \cup SearchUtterances \cup ScenarioUtterances \cup AdminUtterances
    \cup TermUtterances \cup LevelUtterances \cup ServiceUtterances
    \cup PrecedenceUtterances \cup SizeOrderUtterances

\* what a caller can pass: a string, or a value that is not a string
Inputs == {Some(u) : u \in Utterances} \cup {None}

(***************************************************************************)
(* The specifications.                                                     *)
(***************************************************************************)
\* one parser has been constructed, with or without logging
Init ==
  \E enable_logging \in BOOLEAN :
    /\ parsers = [p \in Parsers |-> IF p = 1 THEN NewParser(enable_logging) ELSE NoParser]
    /\ logger = LoggerAfterInit(FreshLogger, enable_logging)
    /\ pc = [c \in Calls |-> "idle"]
    /\ frame = [c \in Calls |-> IdleFrame]
    /\ out = [c \in Calls |-> ""]
    /\ records = [c \in Calls |-> {}]
    /\ queries = [c \in Calls |-> IdleQuery]

\* the synchronous use: one thread, one call at a time, each returned before
\* the next
MainThread == CHOOSE c \in Calls : \A d \in Calls : c <= d

Call(c) ==
  /\ pc[c] = "idle"
  /\ \E p \in Parsers :
       /\ parsers[p].constructed
       /\ \E natural_query \in Inputs : Begin(c, p, natural_query)
  /\ UNCHANGED queries

Next ==
  \/ Call(MainThread)
  \/ \E c \in Calls : Step(c)
  \/ \E c \in Calls : Return(c)

Spec == Init /\ [][Next]_vars

\* every instance has been constructed
InitAll ==
  \E enable_logging \in BOOLEAN :
    /\ parsers = [p \in Parsers |-> NewParser(enable_logging)]
    /\ logger = LoggerAfterInit(FreshLogger, enable_logging)
    /\ pc = [c \in Calls |-> "idle"]
    /\ frame = [c \in Calls |-> IdleFrame]
    /\ out = [c \in Calls |-> ""]
    /\ records = [c \in Calls |-> {}]
    /\ queries = [c \in Calls |-> IdleQuery]

\* a few inputs for the specifications in which calls meet: a search with a
\* size, one without, an administrative call, a non-string
MeetingInputs == {Some("top 5 errors"), Some("errors today"), Some("Cluster Health"), None}

\* The instances are interchangeable, so caller c is given the instances
\* 1..c to choose from: callers on one instance and on different ones.
CallFrom(c, inputs) ==
  \E p \in Parsers :
    /\ p <= c
    /\ parsers[p].constructed
    /\ \E natural_query \in inputs : Begin(c, p, natural_query)
    /\ UNCHANGED queries

\* several callers, one call at a time; what a call returned stays with the
\* caller until it calls again
CallNext(c) ==
  /\ \A d \in Calls : pc[d] \in {"idle", "done"}
  /\ CallFrom(c, MeetingInputs)

NextSeq ==
  \/ \E c \in Calls : CallNext(c)
  \/ \E c \in Calls : Step(c)

SpecSeq == InitAll /\ [][NextSeq]_vars

\* threads call parse without coordination, each once: the steps of the calls
\* interleave
ConcurrentInputs == {Some("top 5 errors"), Some("Cluster Health"), None}

CallConcurrently(c) == pc[c] = "idle" /\ CallFrom(c, ConcurrentInputs)

NextConc ==
  \/ \E c \in Calls : CallConcurrently(c)
  \/ \E c \in Calls : Step(c)

SpecConc == InitAll /\ [][NextConc]_vars

\* the places of a call in parse, in the order of the code
PassOrder ==
  <<"parse", "unsupported_check", "admin_check", "log_level", "service_name",
    "time_range", "search_terms", "size", "build", "except", "dumps", "done">>
Rank(step) == CHOOSE i \in 1..Len(PassOrder) : PassOrder[i] = step

\* the thread that runs call c executes its next statement: the call moves
\* to a later place of parse
Advance(c) ==
  /\ InProgress(c)
  /\ \E i \in 1..Len(PassOrder) :
       /\ i > Rank(pc[c])
       /\ pc' = [pc EXCEPT ![c] = PassOrder[i]]

\* One thread calls parse, again and again, and a call that has been entered
\* runs on: parse is straight-line code that waits for nothing, so the thread
\* keeps executing it until it returns.
PassInputs == {Some(u) : u \in ScenarioUtterances \cup AdminUtterances} \cup {None}

CallPass(c) == pc[c] = "idle" /\ CallFrom(c, PassInputs)

NextPass ==
  \/ CallPass(MainThread)
  \/ \E c \in Calls : Step(c)
  \/ \E c \in Calls : Return(c)

SpecPass == InitAll /\ [][NextPass]_vars /\ WF_pc(Advance(MainThread))

\* One thread uses the client: each query returns before the next.  The
\* utterances are those of the tests and examples and the administrative
\* ones; the index is the default of query or that of search_logs.
QueryUtterances ==
  ScenarioUtterances \cup AdminUtterances
    \cup {"show me errors from last 5 minutes", "show shards", "shard status"}
QueryInputs == {Some(u) : u \in QueryUtterances} \cup {None}
Indexes == {"*", "logs-*"}

Query(c) ==
  \E natural_language_query \in QueryInputs, index \in Indexes, execute \in BOOLEAN :
    QueryBegin(c, natural_language_query, index, execute)

NextClient ==
  \/ Query(MainThread)
  \/ \E c \in Calls : Step(c)
  \/ \E c \in Calls : QueryFinish(c)

SpecClient == Init /\ [][NextClient]_vars

(***************************************************************************)
(* The shared logger.  Every NLQParser takes logging.getLogger             *)
(* ('nlq_parser'), one object for the process, and its constructor and     *)
(* configure_logging write to it.                                          *)
(***************************************************************************)
\* the process before any parser is made: the logger as logging creates it
InitFresh ==
  /\ parsers = [p \in Parsers |-> NoParser]
  /\ logger = FreshLogger
  /\ pc = [c \in Calls |-> "idle"]
  /\ frame = [c \in Calls |-> IdleFrame]
  /\ out = [c \in Calls |-> ""]
  /\ records = [c \in Calls |-> {}]
  /\ queries = [c \in Calls |-> IdleQuery]

\* configure_logging(level, enable_debug): what it does to the logger
LoggerAfterConfigure(lg, level, enable_debug) ==
  LET chosen == IF enable_debug THEN LEVEL.DEBUG ELSE level
  IN  IF lg.handlers > 0 THEN [lg EXCEPT !.level = chosen] ELSE lg

ConfigureLevels == {LEVEL.DEBUG, LEVEL.INFO, LEVEL.WARNING}

configure_logging(level, enable_debug) ==
  /\ logger' = LoggerAfterConfigure(logger, level, enable_debug)
  /\ UNCHANGED <<parsers, pc, frame, out, records, queries>>

\* a caller calls parse on any of the parsers that exist
CallAny(c) ==
  /\ pc[c] = "idle"
  /\ \E p \in Parsers :
       /\ parsers[p].constructed
       /\ \E natural_query \in MeetingInputs : Begin(c, p, natural_query)
  /\ UNCHANGED queries

\* Parsers are made and configure_logging is called at any time, also while
\* a call of parse is in progress in another thread.
NextLogging ==
  \/ \E p \in Parsers, enable_logging \in BOOLEAN : Construct(p, enable_logging)
  \/ \E level \in ConfigureLevels, enable_debug \in BOOLEAN :
       configure_logging(level, enable_debug)
  \/ CallAny(MainThread)
  \/ \E c \in Calls : Step(c)
  \/ \E c \in Calls : Return(c)

SpecLogging == InitFresh /\ [][NextLogging]_vars

\* main() and demo_with_logging(): configure_logging(enable_debug=True), then
\* parser = NLQParser(enable_logging=True), two statements of one thread
MainParser == CHOOSE p \in Parsers : \A q \in Parsers : p <= q

MainSetup ==
  /\ \A p \in Parsers : ~parsers[p].constructed
  /\ parsers' = [parsers EXCEPT ![MainParser] = NewParser(TRUE)]
  /\ logger' = LoggerAfterInit(LoggerAfterConfigure(logger, LEVEL.INFO, TRUE), TRUE)
  /\ UNCHANGED <<pc, frame, out, records, queries>>

\* after the two statements the thread calls parser.parse, one call at a time
NextMain ==
  \/ MainSetup
  \/ Call(MainThread)
  \/ \E c \in Calls : Step(c)
  \/ \E c \in Calls : Return(c)

SpecMain == InitFresh /\ [][NextMain]_vars

(***************************************************************************)
(* WebexLogsClient.  The client owns one NLQParser, made with logging      *)
(* enabled, and sends HTTP requests with the requests library.  Of a       *)
(* request the model keeps the method and the URL path, of a response      *)
(* whether requests raised, the status code and the decoded body; the      *)
(* headers, cookies and the body of the request are left out.              *)
(***************************************************************************)
\* None and True of Python, as values of a dict
JNull == [t |-> "null", v |-> "None"]
JTrue == [t |-> "bool", v |-> "True"]

IsDict(val) == val.t = "obj"

\* the truth value of a Python value
Truthy(val) ==
  CASE val.t = "str" -> val.v # ""
    [] val.t = "int" -> val.v # 0
    [] val.t \in {"arr", "obj"} -> Len(val.v) > 0
    [] val.t = "bool" -> val.v = "True"
    [] OTHER -> FALSE

\* obj.get(key, default)
GetOr(obj, key, default) == IF HasKey(obj, key) THEN Get(obj, key) ELSE default

\* key in data: a key of a dict, an element of a list, a substring of a
\* string; a TypeError on anything else
KeyInRaises(data) == data.t \notin {"obj", "arr", "str"}
KeyIn(key, data) ==
  CASE data.t = "obj" -> HasKey(data, key)
    [] data.t = "arr" -> \E i \in 1..Len(data.v) : data.v[i].t = "str" /\ data.v[i].v = key
    [] data.t = "str" -> Contains(data.v, key)
    [] OTHER -> FALSE

\* str(value), for the strings, integers and booleans the responses hold
Str(val) == IF val.t = "int" THEN JStr(ToString(val.v)) ELSE JStr(val.v)

\* lines 262-277
ServiceNameFields == <<"serviceName", "service_name", "application", "app">>
_get_service_name(source) ==
  LET service == GetOr(source, "service", JNull)
      found == {k \in 1..Len(ServiceNameFields) :
                  Truthy(GetOr(source, ServiceNameFields[k], JNull))}
  IN  IF IsDict(service) THEN GetOr(service, "name", JNull)
      ELSE IF Truthy(service) THEN Str(service)
      ELSE IF found # {} THEN Str(Get(source, ServiceNameFields[Least(found)]))
      ELSE JNull

\* lines 246-258, one hit: hit.get, source.get and source.get('log', {}).get
\* raise AttributeError on what is not a dict
HitRaises(hit) ==
  \/ ~IsDict(hit)
  \/ ~IsDict(GetOr(hit, "_source", JObj(<<>>)))
  \/ LET source == GetOr(hit, "_source", JObj(<<>>))
     IN  /\ ~Truthy(GetOr(source, "level", JNull))
         /\ ~IsDict(GetOr(source, "log", JObj(<<>>)))

log_entry(hit) ==
  LET source == GetOr(hit, "_source", JObj(<<>>))
      level == GetOr(source, "level", JNull)
      host == GetOr(source, "host", JNull)
  IN  JObj(<< <<"timestamp", GetOr(source, "@timestamp", JNull)>>,
              <<"level", IF Truthy(level) THEN level
                         ELSE GetOr(GetOr(source, "log", JObj(<<>>)), "level", JNull)>>,
              <<"service", _get_service_name(source)>>,
              <<"message", GetOr(source, "message", JStr(""))>>,
              <<"host", IF IsDict(host) THEN GetOr(host, "name", JNull) ELSE host>>,
              <<"index", GetOr(hit, "_index", JNull)>> >>)

\* lines 231-260: the formatted results, or None when an exception leaves
\* the method
_format_results(opensearch_response) ==
  LET hits == GetOr(opensearch_response, "hits", JObj(<<>>))
      total == GetOr(hits, "total", JObj(<<>>))
      total_count == IF IsDict(total) THEN GetOr(total, "value", JInt(0)) ELSE total
      list == GetOr(hits, "hits", JArr(<<>>))
  IN  IF ~IsDict(opensearch_response) \/ ~IsDict(hits) THEN None
      ELSE IF list.t \notin {"arr", "obj", "str"} THEN None
      ELSE IF list.t \in {"obj", "str"} /\ Len(list.v) > 0 THEN None
      ELSE IF list.t = "arr" /\ \E i \in 1..Len(list.v) : HitRaises(list.v[i]) THEN None
      ELSE Some(JObj(<< <<"success", JTrue>>,
                        <<"total_hits", total_count>>,
                        <<"query_time_ms", GetOr(opensearch_response, "took", JInt(0))>>,
                        <<"logs", JArr(IF list.t = "arr"
                                       THEN [i \in 1..Len(list.v) |-> log_entry(list.v[i])]
                                       ELSE <<>>)>> >>))

\* What came of a request: requests raised (a timeout, a refused
\* connection), or a response with a status code and a body, which
\* response.json() decodes or not.
RequestRaised == [raised |-> TRUE, status_code |-> 0, json |-> None]
Response(status_code, json) == [raised |-> FALSE, status_code |-> status_code, json |-> json]

\* a response of OpenSearch with one hit that has a level, and one with a hit
\* of a container log, whose 'log' field is the text of the line
HitsWithLevel ==
  JObj(<< <<"took", JInt(3)>>,
          <<"hits", JObj(<< <<"total", JObj(<< <<"value", JInt(1)>> >>)>>,
                            <<"hits", JArr(<< JObj(<< <<"_index", JStr("wxm-app:logs-1")>>,
                                                      <<"_source", JObj(<< <<"@timestamp", JStr("t1")>>,
                                                                           <<"level", JStr("ERROR")>>,
                                                                           <<"service", JObj(<< <<"name", JStr("pay")>> >>)>>,
                                                                           <<"message", JStr("refused")>>,
                                                                           <<"host", JStr("h1")>> >>)>> >>) >>)>> >>)>> >>)
HitsWithLogLine ==
  JObj(<< <<"took", JInt(3)>>,
          <<"hits", JObj(<< <<"total", JInt(1)>>,
                            <<"hits", JArr(<< JObj(<< <<"_index", JStr("wxm-app:logs-1")>>,
                                                      <<"_source", JObj(<< <<"log", JStr("line")>>,
                                                                           <<"app", JStr("pay")>> >>)>> >>) >>)>> >>)>> >>)

\* the pools of bodies and responses are lists, for their members are of
\* different kinds
SearchBodies ==
  <<JObj(<<>>), HitsWithLevel, HitsWithLogLine, JObj(<< <<"hits", JArr(<<>>)>> >>),
    JObj(<< <<"hits", JObj(<<>>)>> >>), JArr(<<JStr("hits")>>), JInt(5)>>

ProxyResponses ==
  <<RequestRaised, Response(500, None), Response(200, None),
    Response(200, Some(JObj(<< <<"status", JStr("green")>> >>)))>>
    \o [i \in 1..Len(SearchBodies) |-> Response(200, Some(SearchBodies[i]))]

InternalResponses ==
  <<RequestRaised, Response(500, None), Response(200, None),
    Response(500, Some(HitsWithLevel)), Response(200, Some(HitsWithLevel)),
    Response(200, Some(JInt(5)))>>
    \o [i \in 1..Len(SearchBodies) |->
          Response(200, Some(JObj(<< <<"rawResponse", SearchBodies[i]>> >>)))]

\* what a method of the client did: the requests it made, the responses it
\* got and what went back to the caller
Exchange(requests, responses, returned) ==
  [requests |-> requests, responses |-> responses, returned |-> returned]

\* lines 72-104: one GET on the console proxy; response.text stands for the
\* body that is not JSON
_execute_api_query(api_path, response) ==
  Exchange(<<"GET api/console/proxy">>, <<response>>,
           IF ~response.raised /\ response.status_code = 200
           THEN IF response.json # None THEN Dict(response.json[1])
                ELSE Dict(JObj(<< <<"response", JStr("response.text")>> >>))
           ELSE Dict(JObj(<< <<"error", JStr("API endpoint " \o api_path \o " not accessible")>> >>)))

\* lines 149-179: every exception raised under the try ends in the error
_try_internal_api(query_dict, response) ==
  LET data == response.json[1]
      raw == Get(data, "rawResponse")
      formatted == IF /\ ~response.raised /\ response.status_code = 200
                      /\ response.json # None
                      /\ IsDict(data) /\ HasKey(data, "rawResponse")
                      /\ ~KeyInRaises(raw) /\ KeyIn("hits", raw)
                   THEN _format_results(raw) ELSE None
  IN  Exchange(<<"POST internal/search/opensearch-with-long-numerals">>, <<response>>,
               IF formatted # None THEN Dict(formatted[1])
               ELSE Dict(JObj(<< <<"error",
                                   JStr("Unable to execute search query - all methods failed")>> >>)))

\* lines 106-147: the return of line 132 is under the try, so an exception of
\* _format_results is caught at line 142 and the method goes on to the
\* internal API
_execute_search_query(query_dict, proxy, internal) ==
  LET data == proxy.json[1]
      formatted == IF /\ ~proxy.raised /\ proxy.status_code = 200
                      /\ proxy.json # None
                      /\ ~KeyInRaises(data) /\ KeyIn("hits", data)
                   THEN _format_results(data) ELSE None
      fallback == _try_internal_api(query_dict, internal)
  IN  IF formatted # None
      THEN Exchange(<<"POST api/console/proxy">>, <<proxy>>, Dict(formatted[1]))
      ELSE Exchange(<<"POST api/console/proxy">> \o fallback.requests,
                    <<proxy>> \o fallback.responses, fallback.returned)

\* lines 50-70: what query does with the string parse returned
WebexQueryAnswer(query_json, proxy, internal) ==
  LET decoded == Loads(query_json)
      query_dict == decoded[1]
  IN  IF decoded = None
      THEN Exchange(<<>>, <<>>,
                    Dict(JObj(<< <<"error", JStr("Failed to parse query: " \o query_json)>> >>)))
      ELSE IF HasKey(query_dict, "error") THEN Exchange(<<>>, <<>>, Dict(query_dict))
      ELSE IF HasKey(query_dict, "api")
      THEN _execute_api_query(Get(query_dict, "api").v, proxy)
      ELSE _execute_search_query(query_dict, proxy, internal)

\* WebexLogsClient(...): line 21, self.parser = NLQParser(enable_logging=True)
WebexParser == CHOOSE p \in Parsers : \A q \in Parsers : p <= q

InitWebex ==
  /\ parsers = [p \in Parsers |-> IF p = WebexParser THEN NewParser(TRUE) ELSE NoParser]
  /\ logger = LoggerAfterInit(FreshLogger, TRUE)
  /\ pc = [c \in Calls |-> "idle"]
  /\ frame = [c \in Calls |-> IdleFrame]
  /\ out = [c \in Calls |-> ""]
  /\ records = [c \in Calls |-> {}]
  /\ queries = [c \in Calls |-> IdleQuery]

\* query(natural_language) is entered and calls self.parser.parse: line 50
WebexQueryBegin(c, natural_language) ==
  /\ queries[c].stage # "called"
  /\ Begin(c, WebexParser, natural_language)
  /\ queries' = [queries EXCEPT ![c] =
       [IdleQuery EXCEPT !.stage = "called", !.natural_language_query = natural_language]]

\* parse has returned: lines 52-70, to the return
WebexQueryFinish(c) ==
  /\ queries[c].stage = "called"
  /\ pc[c] = "done"
  /\ \E i \in 1..Len(ProxyResponses), j \in 1..Len(InternalResponses) :
       LET answer == WebexQueryAnswer(out[c], ProxyResponses[i], InternalResponses[j])
       IN  queries' = [queries EXCEPT ![c] =
             [@ EXCEPT !.stage = "returned", !.requests = answer.requests,
                       !.responses = answer.responses, !.returned = answer.returned]]
  /\ UNCHANGED <<parsers, logger, pc, frame, out, records>>

\* the queries of interactive(): searches, administrative requests and
\* what the parser refuses
WebexUtterances ==
  {"errors in last 5 minutes for Hydra", "warnings from api-gateway in last hour",
   "show cluster health", "show nodes", "list indices", "top 5 errors", "logs",
   "delete index foo"}
WebexInputs == {Some(u) : u \in WebexUtterances} \cup {None}

WebexQuery(c) == \E natural_language \in WebexInputs : WebexQueryBegin(c, natural_language)

NextWebex ==
  \/ WebexQuery(MainThread)
  \/ \E c \in Calls : Step(c)
  \/ \E c \in Calls : WebexQueryFinish(c)

SpecWebex == InitWebex /\ [][NextWebex]_vars

(***************************************************************************)
(* The properties.  They speak of the calls that have returned: what was   *)
(* passed (frame[c].natural_query) and the string that came back (out[c]). *)
(***************************************************************************)
\* call c has returned, and what it was given was a string
Returned(c) == pc[c] = "done" /\ frame[c].natural_query # None
Utterance(c) == frame[c].natural_query[1]
\* the utterance of c, lower-cased and trimmed
Normalized(c) == strip(lower(Utterance(c)))

\* no unsupported, cluster or cat classification is triggered
IsSearch(q) == ~_is_unsupported_query(q) /\ ~_is_cluster_query(q) /\ ~_is_cat_query(q)

StartsWith(s, prefix) == SubSeq(s, 1, Len(prefix)) = prefix

UnsupportedPayload ==
  "{\"error\":\"Unsupported query. Please rephrase or check available APIs.\"}"

BaseHead(size) == "{\"size\":" \o size \o ",\"sort\":[{\"@timestamp\":\"desc\"}],\"query\":"
MustPayload(size, clauses) == BaseHead(size) \o "{\"bool\":{\"must\":[" \o clauses \o "]}}}"
LevelClause(level) == "{\"match\":{\"log.level\":\"" \o level \o "\"}}"
ServiceClause(name) == "{\"match\":{\"service.name\":\"" \o name \o "\"}}"
GteClause(gte) == "{\"range\":{\"@timestamp\":{\"gte\":\"" \o gte \o "\"}}}"

\* the unit codes of the search engine
UnitCode(unit) ==
  CASE unit \in {"minute", "minutes", "min"} -> "m"
    [] unit \in {"hour", "hours", "hr", "hrs"} -> "h"
    [] unit \in {"day", "days"} -> "d"
    [] unit \in {"week", "weeks"} -> "w"
    [] unit \in {"month", "months"} -> "M"
    [] unit \in {"year", "years"} -> "y"

\* C1: every call whose utterance, lower-cased and trimmed, contains an
\* unsupported keyword as a substring (also inside a longer word) or matches
\* a mutating-verb pattern returned exactly the unsupported-query payload,
\* whatever cluster trigger, cat pattern or facet words it also contains.
C1_UnsupportedFirst ==
  \A c \in Calls :
    Returned(c) /\ _is_unsupported_query(Normalized(c)) => out[c] = UnsupportedPayload

\* 'put' inside 'compute', next to a cluster trigger
C1_Witness ==
  \E c \in Calls :
    /\ Returned(c)
    /\ Utterance(c) = "compute cluster health"
    /\ _is_cluster_query(Normalized(c))
    /\ out[c] = UnsupportedPayload

\* the three clauses of a search for level, service and time range, the
\* level being one of the canonical ones
ThreeClauses(name, amount, unit) ==
  {MustPayload("50", LevelClause(lv) \o "," \o ServiceClause(name \o "-service") \o ","
                       \o GteClause("now-" \o amount \o UnitCode(unit))) :
     lv \in {"error", "warn", "info", "debug", "trace"}}

\* for, a word and service, one after the other
ForWordService(q) ==
  \E i \in 1..Len(q) :
    LET a == i + 3
        w == Run(q, a, Whitespace)
        n == Run(q, a + w, TokenChars)
        v == Run(q, a + w + n, Whitespace)
    IN  At(q, i, "for") /\ w >= 1 /\ n >= 1 /\ v >= 1 /\ At(q, a + w + n + v, "service")

\* the utterances of SearchTemplates, each with the outputs that carry its
\* three clauses
SearchCases ==
  {[text |-> SearchText(t), expected |-> ThreeClauses(t.name, t.amount, t.unit)] :
     t \in SearchTemplates}

\* C2 as it was stated: every utterance made of a level word, 'last N <unit>',
\* 'for <name>-service' and otherwise only stop-words yields size 50, the
\* fixed sort and exactly the three clauses log.level, service.name =
\* '<name>-service', @timestamp gte now-N<code>, in this order.
C2_AnyStopWords ==
  \A c \in Calls :
    Returned(c) =>
      \A case \in SearchCases : Utterance(c) = case.text => out[c] \in case.expected

\* C2: 'I want to get details of errors in last 5 minutes for
\* checkout-service' yields size 50, the fixed sort and exactly the clauses
\* log.level = error, service.name = checkout-service, @timestamp gte now-5m;
\* so does, with its level, name, N and unit, every utterance made of a level
\* word, 'last N <unit>', 'for <name>-service' and otherwise only stop-words,
\* provided it triggers no unsupported, cluster or cat classification and the
\* stop-words do not form 'for <word> service'.
C2_ThreeClauses ==
  \A c \in Calls :
    Returned(c) =>
      /\ Utterance(c) = "I want to get details of errors in last 5 minutes for checkout-service"
           => out[c] = MustPayload("50", LevelClause("error") \o ","
                         \o ServiceClause("checkout-service") \o "," \o GteClause("now-5m"))
      /\ \A case \in SearchCases :
           /\ Utterance(c) = case.text
           /\ IsSearch(Normalized(c))
           /\ ~ForWordService(Normalized(c))
           => out[c] \in case.expected

\* stop-words before, between and after the three phrases, the service first
C2_Witness ==
  \E c \in Calls :
    /\ Returned(c)
    /\ Utterance(c) = "show me the logs with for web-api2-service for service errors"
                        \o " in last " \o ToString(MaxAmount) \o " hrs from the user api"
    /\ out[c] \in ThreeClauses("web-api2", ToString(MaxAmount), "hrs")

\* no level, service, time range, search term or size is extracted
NoFacet(q) ==
  /\ _extract_log_level(q) = None
  /\ _extract_service_name(q) = None
  /\ build_time_range(q) = None
  /\ _extract_search_terms(q) = <<>>
  /\ _extract_size(q) = None

\* C3: every utterance that triggers no unsupported, cluster or cat
\* classification and from which no level, service, time range, search term
\* or size is extracted, the empty string included, yields exactly the
\* match_all query with size 50 and the fixed sort.
C3_MatchAll ==
  \A c \in Calls :
    Returned(c) /\ IsSearch(Normalized(c)) /\ NoFacet(Normalized(c))
      => out[c] = BaseHead("50") \o "{\"match_all\":{}}}"

C3_Witness ==
  \E c \in Calls :
    /\ Returned(c)
    /\ Utterance(c) = ""
    /\ out[c] = "{\"size\":50,\"sort\":[{\"@timestamp\":\"desc\"}],\"query\":{\"match_all\":{}}}"

\* C4: over any sequence of parse calls on one or several instances, with
\* logging enabled or disabled, two calls given the same input returned the
\* same string, whatever was parsed before them.
C4_SameInputSameOutput ==
  \A c, d \in Calls :
    /\ pc[c] = "done"
    /\ pc[d] = "done"
    /\ frame[c].natural_query = frame[d].natural_query
    => out[c] = out[d]

\* the same utterance went to two instances, from two callers
C4_Witness ==
  \E c, d \in Calls :
    /\ Returned(c) /\ Returned(d)
    /\ frame[c].self # frame[d].self
    /\ Utterance(c) = "errors today"
    /\ Utterance(d) = "errors today"
    /\ out[c] = out[d]
    /\ StartsWith(out[c], BaseHead("50"))

\* what parse returns for each input of the concurrent callers when the call
\* runs alone, on an instance nothing else uses
RunAlone == [natural_query \in ConcurrentInputs |-> parse(NewQueryBuilder, natural_query)]

\* C5: under any interleaving of the steps of concurrent parse calls, on the
\* same or on different instances, every call returned what parse returns for
\* its input when it runs alone.
C5_AsWhenRunAlone ==
  \A c \in Calls :
    pc[c] = "done" => out[c] = RunAlone[frame[c].natural_query]

\* two calls on one instance, with different utterances, each in progress
\* during the other; one has returned
C5_Witness ==
  \E c, d \in Calls :
    /\ c # d
    /\ Returned(c) /\ frame[c].overlapped
    /\ pc[d] # "idle" /\ frame[d].overlapped
    /\ frame[c].self = frame[d].self
    /\ frame[c].natural_query # frame[d].natural_query
    /\ frame[d].natural_query # None
    /\ out[c] = MustPayload("5", LevelClause("error"))

\* the size phrases of q: the first match of each of the four patterns
SizePhrases(q) ==
  [show |-> Search(SizeMatches(q, "show", "result")),
   limit |-> Search(SizeMatches(q, "limit", "")),
   top |-> Search(SizeMatches(q, "top", "")),
   first |-> Search(SizeMatches(q, "first", ""))]

\* 'top N errors' for every positive N within the bound, with its output
TopCases ==
  {[text |-> "top " \o ToString(n) \o " errors",
    expected |-> MustPayload(ToString(n), LevelClause("error"))] : n \in 1..MaxAmount}

\* C6: 'top N errors' yields size N for every positive N; so does every
\* search utterance whose only size phrase is 'top N', whatever level and
\* time facets it carries ('show top 100 errors in last 10 minutes' yields
\* size 100 with the error clause and the now-10m range); a search utterance
\* with no size phrase yields size 50.
C6_TopN ==
  \A c \in Calls :
    Returned(c) =>
      LET q == Normalized(c)
          phrases == SizePhrases(q)
      IN  /\ \A case \in TopCases : Utterance(c) = case.text => out[c] = case.expected
          /\ Utterance(c) = "show top 100 errors in last 10 minutes"
               => out[c] = MustPayload("100", LevelClause("error") \o ","
                                                \o GteClause("now-10m"))
          /\ ( /\ IsSearch(q)
               /\ phrases.top # None
               /\ phrases.show = None /\ phrases.limit = None /\ phrases.first = None
               /\ ParseInt(phrases.top[1].group1) > 0 )
               => StartsWith(out[c],
                    BaseHead(ToString(ParseInt(phrases.top[1].group1))))
          /\ ( /\ IsSearch(q)
               /\ phrases.top = None
               /\ phrases.show = None /\ phrases.limit = None /\ phrases.first = None )
               => StartsWith(out[c], BaseHead("50"))

\* a size of two digits, with a level and a time facet
C6_Witness ==
  \E c \in Calls :
    /\ Returned(c)
    /\ Utterance(c) = "show top " \o ToString(MaxAmount) \o " errors in last 10 minutes"
    /\ out[c] = MustPayload(ToString(MaxAmount), LevelClause("error") \o ","
                                                   \o GteClause("now-10m"))

\* 'last N <unit>' for every amount and unit synonym, alone and after a
\* level word, with its output
LastCases ==
  {[text |-> "last " \o n \o " " \o u,
    expected |-> MustPayload("50", GteClause("now-" \o n \o UnitCode(u)))] :
     n \in Amounts, u \in UnitWords}
  \cup {[text |-> "warnings in last " \o n \o " " \o u,
         expected |-> MustPayload("50", LevelClause("warn") \o ","
                                          \o GteClause("now-" \o n \o UnitCode(u)))] :
        n \in {"5"}, u \in UnitWords}

\* C7: 'last N <unit>' with any recognized unit synonym yields the single
\* range clause gte now-N<code>, the code being m for minute/minutes/min, h
\* for hour/hours/hr/hrs, d for day/days, w for week/weeks, M for
\* month/months, y for year/years; 'today' yields gte now/d; 'yesterday'
\* yields gte now-1d/d and lt now/d.
C7_TimeCanonical ==
  \A c \in Calls :
    Returned(c) =>
      /\ \A case \in LastCases : Utterance(c) = case.text => out[c] = case.expected
      /\ Utterance(c) = "today" => out[c] = MustPayload("50", GteClause("now/d"))
      /\ Utterance(c) = "errors today"
           => out[c] = MustPayload("50", LevelClause("error") \o "," \o GteClause("now/d"))
      /\ Utterance(c) = "yesterday"
           => out[c] = MustPayload("50",
                "{\"range\":{\"@timestamp\":{\"gte\":\"now-1d/d\",\"lt\":\"now/d\"}}}")

\* months, where the code is the upper-case M
C7_Witness ==
  \E c \in Calls :
    /\ Returned(c)
    /\ Utterance(c) = "last 5 months"
    /\ out[c] = MustPayload("50", GteClause("now-5M"))

\* the unsupported-query payload as json.dumps writes it by default
UnsupportedPayloadSpaced ==
  "{\"error\": \"Unsupported query. Please rephrase or check available APIs.\"}"

\* C8: every error output of parse carries exactly the message 'Unsupported
\* query. Please rephrase or check available APIs.', the unresolved cluster
\* and cat sub-cases included.
C8_SoleErrorMessage ==
  \A c \in Calls :
    pc[c] = "done" /\ StartsWith(out[c], "{\"error\":")
      => out[c] \in {UnsupportedPayload, UnsupportedPayloadSpaced}

\* C9: a call whose input is not a string, so that _parse_to_dict raises,
\* returned, and what it returned is byte for byte the payload of an
\* utterance rejected as unsupported.
C9_SamePayloadOnException ==
  \A c \in Calls :
    pc[c] = "done" /\ frame[c].natural_query = None => out[c] = UnsupportedPayload

\* one of the cluster triggers occurs in q
HasClusterTrigger(q) ==
  \E trigger \in {"cluster health", "cluster status", "node", "shard"} : Contains(q, trigger)

\* C10: an utterance that is not unsupported and contains a cluster trigger
\* yields {"api":"_cluster/health"} if it contains 'health' or 'status',
\* otherwise {"api":"_cat/nodes?v"} if it contains 'node', otherwise a
\* payload with an error and nothing else; 'cluster health' yields
\* {"api":"_cluster/health"}.
C10_ClusterResolution ==
  \A c \in Calls :
    Returned(c) =>
      LET q == Normalized(c)
      IN  /\ Utterance(c) = "Cluster Health" => out[c] = "{\"api\":\"_cluster/health\"}"
          /\ ~_is_unsupported_query(q) /\ HasClusterTrigger(q)
               => IF Contains(q, "health") \/ Contains(q, "status")
                  THEN out[c] = "{\"api\":\"_cluster/health\"}"
                  ELSE IF Contains(q, "node")
                  THEN out[c] = "{\"api\":\"_cat/nodes?v\"}"
                  ELSE /\ StartsWith(out[c], "{\"error\":\"")
                       /\ Len(frame[c].query_dict.v) = 1

\* 'status' and 'node' together: the health API wins
C10_Witness ==
  \E c \in Calls :
    /\ Returned(c)
    /\ Utterance(c) = "nodes status"
    /\ out[c] = "{\"api\":\"_cluster/health\"}"

\* \bverb\s+noun\b matches somewhere in q
CatPhrase(q, verb, noun) ==
  \E i \in 1..Len(q) : CatPatternAt(q, i, [verb |-> verb, noun |-> noun])

\* C11: every utterance that is not unsupported, has no cluster trigger and
\* matches 'list indices', 'show indices', or 'cat ' with 'indices' in the
\* utterance, yields exactly {"api":"_cat/indices?v"}.
C11_CatIndices ==
  \A c \in Calls :
    Returned(c) =>
      LET q == Normalized(c)
      IN  /\ ~_is_unsupported_query(q)
          /\ ~HasClusterTrigger(q)
          /\ \/ CatPhrase(q, "list", "indices")
             \/ CatPhrase(q, "show", "indices")
             \/ CatPhrase(q, "cat", "") /\ Contains(q, "indices")
          => out[c] = "{\"api\":\"_cat/indices?v\"}"

\* 'cat', then a word, then 'indices', with facet words after them
C11_Witness ==
  \E c \in Calls :
    /\ Returned(c)
    /\ Utterance(c) = "Cat all indices for x-service"
    /\ out[c] = "{\"api\":\"_cat/indices?v\"}"

\* C12: every utterance that is not unsupported and matches the cat pattern
\* 'list shards' or 'show shards' yields {"api":"_cat/shards?v"}.
C12_CatShards ==
  \A c \in Calls :
    Returned(c) =>
      LET q == Normalized(c)
      IN  /\ ~_is_unsupported_query(q)
          /\ CatPhrase(q, "list", "shards") \/ CatPhrase(q, "show", "shards")
          => out[c] = "{\"api\":\"_cat/shards?v\"}"

\* C13: a query made with execute=False hands back exactly the string that
\* parse returned, whatever the utterance and the branch, and makes no call on
\* the connection.
C13_DryRun ==
  \A c \in Calls :
    queries[c].stage = "returned" /\ ~queries[c].execute =>
      /\ queries[c].returned = Text(out[c])
      /\ out[c] = parse(parsers[ClientParser].query_builder,
                        queries[c].natural_language_query)
      /\ queries[c].requests = <<>>

C13_Witness ==
  \E c \in Calls :
    /\ queries[c].stage = "returned" /\ ~queries[c].execute
    /\ queries[c].natural_language_query = Some("create a new index with custom mappings")
    /\ queries[c].returned = Text("{\"error\":\"Unsupported query. Please rephrase or check available APIs.\"}")

\* one of the seven cat patterns matches somewhere in q
HasCatPattern(q) ==
  \/ \E verb \in {"list", "show"}, noun \in {"indices", "nodes", "shards"} :
       CatPhrase(q, verb, noun)
  \/ CatPhrase(q, "cat", "")

\* what the cluster check answers, and what the cat check answers
ClusterPayloads ==
  {"{\"api\":\"_cluster/health\"}", "{\"api\":\"_cat/nodes?v\"}",
   "{\"error\":\"Unsupported cluster query. Please rephrase or check available APIs.\"}"}
CatPayloads ==
  {"{\"api\":\"_cat/indices?v\"}", "{\"api\":\"_cat/nodes?v\"}",
   "{\"api\":\"_cat/shards?v\"}",
   "{\"error\":\"Unsupported cat query. Please rephrase or check available APIs.\"}"}

\* for each utterance, which of the three checks match it
Checks ==
  [u \in Utterances |->
     LET q == strip(lower(u))
     IN  [unsupported |-> _is_unsupported_query(q),
          cluster |-> HasClusterTrigger(q),
          cat |-> HasCatPattern(q)]]

\* the utterances that none of the three checks matches
SearchInputs == {u \in Utterances : IsSearch(strip(lower(u)))}

\* call c has returned, and its utterance is one of them
ReturnedSearch(c) == Returned(c) /\ Utterance(c) \in SearchInputs

\* the steps of a call between the classification and the final query
ExtractingSteps == {"log_level", "service_name", "time_range", "search_terms", "size", "build"}

\* C14: the checks run in the order unsupported, cluster, cat, search and the
\* first that matches decides.  An unsupported utterance gets the unsupported
\* payload; otherwise one with a cluster trigger gets an answer of the
\* cluster check, also when a cat pattern matches ('list nodes' gets the
\* nodes API, 'list shards' the cluster error, not the shards API); otherwise
\* one with a cat pattern gets an answer of the cat check; a search results,
\* and the extractors run, only when none of the three matches.
C14_CheckOrder ==
  \A c \in Calls :
    /\ pc[c] = "admin_check" => ~Checks[Utterance(c)].unsupported
    /\ pc[c] \in ExtractingSteps =>
         /\ ~Checks[Utterance(c)].unsupported
         /\ ~Checks[Utterance(c)].cluster
         /\ ~Checks[Utterance(c)].cat
    /\ Returned(c) =>
         LET q == Normalized(c)
             unsupported == Checks[Utterance(c)].unsupported
             cluster == Checks[Utterance(c)].cluster
             cat == Checks[Utterance(c)].cat
         IN  /\ unsupported => out[c] = UnsupportedPayload
             /\ ~unsupported /\ cluster =>
                  /\ out[c] \in ClusterPayloads
                  /\ cat /\ ~Contains(q, "health") /\ ~Contains(q, "status") =>
                       out[c] = IF Contains(q, "node")
                                THEN "{\"api\":\"_cat/nodes?v\"}"
                                ELSE "{\"error\":\"Unsupported cluster query. Please rephrase or check available APIs.\"}"
             /\ ~unsupported /\ ~cluster /\ cat => out[c] \in CatPayloads
             /\ StartsWith(out[c], "{\"size\":") <=> ~unsupported /\ ~cluster /\ ~cat
             /\ q = "list nodes" => out[c] = "{\"api\":\"_cat/nodes?v\"}"

\* 'list shards' has returned the error of the cluster check
C14_Witness ==
  \E c \in Calls :
    /\ Returned(c)
    /\ Utterance(c) = "list shards"
    /\ out[c] = "{\"error\":\"Unsupported cluster query. Please rephrase or check available APIs.\"}"

\* The states of the state machine view of parse, read off the place of the
\* call: Classified while the classification checks run, Extracting from the
\* first extractor to the final query, Assembled when the output object
\* stands, Serialized when the string has been returned; Failed is the
\* handler of the exceptions, which the view does not name.
Stage(c) ==
  CASE pc[c] = "idle" -> "NoCall"
    [] pc[c] = "parse" -> "Start"
    [] pc[c] \in {"unsupported_check", "admin_check"} -> "Classified"
    [] pc[c] \in ExtractingSteps -> "Extracting"
    [] pc[c] = "dumps" -> "Assembled"
    [] pc[c] = "except" -> "Failed"
    [] pc[c] = "done" -> "Serialized"

\* the keys of an object, in order
Keys(obj) == [i \in 1..Len(obj.v) |-> obj.v[i][1]]

\* a step of call c along Start -> Classified -> (ApiResolved | Rejected |
\* Extracting) -> Assembled -> Serialized: a call that leaves Classified for
\* Assembled has been resolved to an API or rejected, and its object has the
\* one key; one that leaves Extracting has size, sort and query
ViewStep(c) ==
  \/ Stage(c) = "Start" /\ Stage(c)' = "Classified"
  \/ Stage(c) = "Classified" /\ Stage(c)' \in {"Classified", "Extracting"}
  \/ /\ Stage(c) = "Classified" /\ Stage(c)' = "Assembled"
     /\ Keys(frame'[c].query_dict) \in {<<"api">>, <<"error">>}
  \/ Stage(c) = "Extracting" /\ Stage(c)' = "Extracting"
  \/ /\ Stage(c) = "Extracting" /\ Stage(c)' = "Assembled"
     /\ Keys(frame'[c].query_dict) = <<"size", "sort", "query">>
  \/ Stage(c) = "Assembled" /\ Stage(c)' = "Serialized"

\* the path of a call in which _parse_to_dict raises
FailureStep(c) ==
  \/ Stage(c) = "Start" /\ Stage(c)' = "Failed"
  \/ Stage(c) = "Failed" /\ Stage(c)' = "Serialized"

\* a returned call that was classified as unsupported or administrative has
\* an output object with exactly one key, api or error
OneKey(c) ==
  Returned(c) /\ ~IsSearch(Normalized(c)) =>
    /\ Loads(out[c]) # None
    /\ Keys(Loads(out[c])[1]) \in {<<"api">>, <<"error">>}

\* C15 as it was stated: every parse call, whatever it is given, passes once
\* through Start, Classified, one of (ApiResolved | Rejected | Extracting),
\* Assembled and Serialized.
C15_EveryCall ==
  [][\A c \in Calls : InProgress(c) /\ pc'[c] # pc[c] => ViewStep(c)]_vars

\* C15: every parse call in which no exception is raised passes once through
\* Start, Classified, one of (ApiResolved | Rejected | Extracting), Assembled,
\* Serialized; a call in which _parse_to_dict raises (its input is not a
\* string) goes from Start through the exception handler to its return.  No
\* call takes a step back, every call that was entered returns, and a call
\* classified as administrative or unsupported never enters Extracting, so
\* that its output object has exactly one key, api or error.
C15_OnePass ==
  /\ [][\A c \in Calls :
          InProgress(c) /\ pc'[c] # pc[c] =>
            /\ Rank(pc'[c]) > Rank(pc[c])
            /\ IF frame[c].natural_query # None THEN ViewStep(c) ELSE FailureStep(c)]_vars
  /\ [](\A c \in Calls :
          /\ frame[c].natural_query # None /\ pc[c] \in ExtractingSteps => IsSearch(frame[c].query)
          /\ OneKey(c))
  /\ \A c \in Calls : (pc[c] = "parse") ~> (pc[c] = "done")

\* a call classified as administrative has returned, its object with the one
\* key api
C15_Witness ==
  \E c \in Calls :
    /\ Returned(c)
    /\ Utterance(c) = "Show Indices "
    /\ ~IsSearch(Normalized(c))
    /\ Keys(Loads(out[c])[1]) = <<"api">>

\* what a clause of a must list is: a match on log.level, a match on
\* service.name, a range on @timestamp, or a match on another field, which
\* is a clause of a search term
ClauseKind(clause) ==
  IF Keys(clause) = <<"range">> /\ Keys(Get(clause, "range")) = <<"@timestamp">>
  THEN "range"
  ELSE IF Keys(clause) = <<"match">> /\ Len(Get(clause, "match").v) = Len(<<"field">>)
  THEN LET field == Keys(Get(clause, "match"))[Len(<<"field">>)]
       IN  CASE field = "log.level" -> "level"
             [] field = "service.name" -> "service"
             [] OTHER -> "term"
  ELSE "other"

\* the text a match clause asks for
ClauseText(clause) == Get(clause, "match").v[Len(<<"field">>)][Len(<<"field", "text">>)].v

\* the order of the kinds in a must list
KindOrder == <<"level", "service", "range", "term">>
KindRank(kind) == CHOOSE i \in 1..Len(KindOrder) : KindOrder[i] = kind

\* the first place at or after i where word occurs in q, Len(q) + 1 if none
RECURSIVE Occurs(_, _, _)
Occurs(q, i, word) ==
  IF i > Len(q) \/ At(q, i, word) THEN i ELSE Occurs(q, i + 1, word)

\* the words occur in q one after the other, from place i on
RECURSIVE LeftToRight(_, _, _)
LeftToRight(q, i, words) ==
  \/ words = <<>>
  \/ LET at == Occurs(q, i, words[1])
     IN  at <= Len(q) /\ LeftToRight(q, at + Len(words[1]), Tail(words))

\* the must list of the output of a search
MustList(doc) == Get(Get(Get(doc, "query"), "bool"), "must").v

\* C16: the output of a search from which no clause is extracted has the
\* match_all query; every other has a bool query with the key must and no
\* other, and its must list holds at most one log.level clause, then at most
\* one service.name clause, then at most one @timestamp range clause, then
\* one clause for each search term, in the order of the terms in the
\* utterance.
C16_MustOrder ==
  \A c \in Calls :
    ReturnedSearch(c) =>
      LET q == Normalized(c)
          doc == Loads(out[c])[1]
          terms == _extract_search_terms(q)
      IN  IF /\ _extract_log_level(q) = None /\ _extract_service_name(q) = None
             /\ build_time_range(q) = None /\ terms = <<>>
          THEN Get(doc, "query") = JObj(<< <<"match_all", JObj(<<>>)>> >>)
          ELSE /\ Keys(Get(doc, "query")) = <<"bool">>
               /\ Keys(Get(Get(doc, "query"), "bool")) = <<"must">>
               /\ LET must == MustList(doc)
                      kinds == [i \in 1..Len(must) |-> ClauseKind(must[i])]
                      first == Len(must) - Len(terms)
                  IN  /\ \A i \in 1..Len(must) : kinds[i] \in {"level", "service", "range", "term"}
                      /\ \A i, j \in 1..Len(must) :
                           i < j => \/ KindRank(kinds[i]) < KindRank(kinds[j])
                                    \/ kinds[i] = "term" /\ kinds[j] = "term"
                      /\ (\E i \in 1..Len(must) : kinds[i] = "level") <=> _extract_log_level(q) # None
                      /\ (\E i \in 1..Len(must) : kinds[i] = "service") <=> _extract_service_name(q) # None
                      /\ (\E i \in 1..Len(must) : kinds[i] = "range") <=> build_time_range(q) # None
                      /\ first >= 0
                      /\ \A i \in 1..Len(terms) :
                           kinds[first + i] = "term" /\ ClauseText(must[first + i]) = terms[i]
                      /\ \A i \in 1..first : kinds[i] # "term"
                      /\ LeftToRight(q, Len(<<"first">>), terms)

\* a search with a level, a service, a time range and two search terms has
\* returned
C16_Witness ==
  \E c \in Calls :
    /\ Returned(c) /\ IsSearch(Normalized(c))
    /\ Utterance(c) = "refused connection warnings for pay service today"
    /\ out[c] = MustPayload("50", LevelClause("warn") \o "," \o ServiceClause("pay") \o ","
                                  \o GteClause("now/d")
                                  \o ",{\"match\":{\"_all\":\"refused\"}}"
                                  \o ",{\"match\":{\"_all\":\"connection\"}}")
    /\ Keys(Get(Loads(out[c])[1], "query")) = <<"bool">>
    /\ [i \in 1..Len(MustList(Loads(out[c])[1])) |-> ClauseKind(MustList(Loads(out[c])[1])[i])]
         = <<"level", "service", "range", "term", "term">>

\* the field a match clause asks in
ClauseField(clause) == Keys(Get(clause, "match"))[Len(<<"field">>)]

\* C17: each free-text search term of a search utterance becomes a required
\* match clause against the message field.
C17_MessageField ==
  \A c \in Calls :
    Returned(c) /\ IsSearch(Normalized(c)) /\ _extract_search_terms(Normalized(c)) # <<>> =>
      LET must == MustList(Loads(out[c])[1])
          terms == _extract_search_terms(Normalized(c))
      IN  \A i \in 1..Len(terms) :
            \E j \in 1..Len(must) :
              /\ Keys(must[j]) = <<"match">>
              /\ ClauseField(must[j]) = "message"
              /\ ClauseText(must[j]) = terms[i]

\* the scan list of the level words with the canonical form of each
LevelScan ==
  <<[word |-> "error", canonical |-> "error"], [word |-> "errors", canonical |-> "error"],
    [word |-> "warn", canonical |-> "warn"], [word |-> "warning", canonical |-> "warn"],
    [word |-> "warnings", canonical |-> "warn"], [word |-> "info", canonical |-> "info"],
    [word |-> "debug", canonical |-> "debug"], [word |-> "trace", canonical |-> "trace"]>>

\* the canonical form of the first entry of the scan list, from entry k on,
\* that occurs in q
RECURSIVE ScanLevel(_, _)
ScanLevel(q, k) ==
  IF k > Len(LevelScan) THEN None
  ELSE IF Contains(q, LevelScan[k].word) THEN Some(LevelScan[k].canonical)
  ELSE ScanLevel(q, k + 1)

\* the levels asked for by the log.level clauses of an output
LevelsAsked(doc) ==
  IF Keys(Get(doc, "query")) # <<"bool">> THEN <<>>
  ELSE LET must == MustList(doc)
           at == {i \in 1..Len(must) : ClauseKind(must[i]) = "level"}
       IN  [n \in 1..Cardinality(at) |->
              ClauseText(must[CHOOSE i \in at : Cardinality({j \in at : j <= i}) = n])]

\* C18: the output of a search carries at most one level, one of error, warn,
\* info, debug, trace: the canonical form of the first entry of the scan list
\* error, errors, warn, warning, warnings, info, debug, trace that occurs as a
\* substring of the utterance, wherever the level words stand ('debug then
\* error' gives error); none if no entry occurs.
C18_LevelScan ==
  \A c \in Calls :
    ReturnedSearch(c) =>
      LET q == Normalized(c)
          asked == LevelsAsked(Loads(out[c])[1])
      IN  /\ asked = ScanLevel(q, Len(<<"first">>))
          /\ Len(asked) <= Len(<<"one">>)
          /\ \A i \in 1..Len(asked) : asked[i] \in {"error", "warn", "info", "debug", "trace"}
          /\ Utterance(c) = "debug then error" => asked = <<"error">>

C18_Witness ==
  \E c \in Calls :
    /\ Returned(c)
    /\ Utterance(c) = "debug then error"
    /\ out[c] = MustPayload("50", LevelClause("error") \o ",{\"match\":{\"_all\":\"then\"}}")

\* the names asked for by the service.name clauses of an output
ServicesAsked(doc) ==
  IF Keys(Get(doc, "query")) # <<"bool">> THEN <<>>
  ELSE LET must == MustList(doc)
           at == {i \in 1..Len(must) : ClauseKind(must[i]) = "service"}
       IN  [n \in 1..Cardinality(at) |->
              ClauseText(must[CHOOSE i \in at : Cardinality({j \in at : j <= i}) = n])]

\* the name the extractor makes of a captured token
NameOf(token) ==
  IF SubSeq(token, Len(token), Len(token)) = "-" THEN token \o "service" ELSE token

\* the leftmost capture of each of the four patterns, in their order
Captures(q) ==
  <<Search(ServiceMatches(q, "for")), Search(ServiceMatches(q, "in")),
    Search(ServiceMatches(q, "")),
    Search([i \in 1..Len(q) |-> ServiceThenNameAt(q, i)])>>

\* utterances in which a later pattern matches further left than an earlier
\* one, or only the last pattern matches, with the name each gives
OrderCases ==
  {[text |-> "pay service for x-service", name |-> <<"x-service">>],
   [text |-> "in pay service x", name |-> <<"pay">>],
   [text |-> "service x for y service", name |-> <<"y">>],
   [text |-> "alpha service in beta service", name |-> <<"beta">>],
   [text |-> "service in pay service", name |-> <<"pay">>],
   [text |-> "pay-service in web service", name |-> <<"web">>],
   [text |-> "service foo", name |-> <<"foo">>],
   [text |-> "my service", name |-> <<"my">>],
   [text |-> "service", name |-> <<>>],
   [text |-> "services", name |-> <<>>]}

\* C19: the output of a search carries at most one service name, none when
\* none of the patterns 'for <token> service', 'in <token> service', '<token>
\* service', 'service <token>' matches; otherwise the name comes from the
\* leftmost match of the first of the four, in this order, that matches
\* anywhere, also when a later pattern matches further left.
C19_PatternOrder ==
  \A c \in Calls :
    ReturnedSearch(c) =>
      LET q == Normalized(c)
          asked == ServicesAsked(Loads(out[c])[1])
          captures == Captures(q)
          matching == {k \in 1..Len(captures) : captures[k] # None}
      IN  /\ Len(asked) <= Len(<<"one">>)
          /\ matching = {} <=> asked = <<>>
          /\ matching # {} => asked = <<NameOf(captures[Least(matching)][1].group1)>>
          /\ \A case \in OrderCases : Utterance(c) = case.text => asked = case.name

\* 'pay service for x-service': '<token> service' matches at the start,
\* 'for <token> service' after it, and the name is that of the latter
C19_Witness ==
  \E c \in Calls :
    /\ Returned(c)
    /\ Utterance(c) = "pay service for x-service"
    /\ Captures(Normalized(c))[Len(<<"for", "in", "token">>)][1].group1 = "pay"
    /\ ServicesAsked(Loads(out[c])[1]) = <<"x-service">>

\* the places where 'service' occurs in q
ServicePlaces(q) == {i \in 1..Len(q) : At(q, i, "service")}

\* the token characters that stand just before place i, in a row
RECURSIVE TokenBefore(_, _)
TokenBefore(q, i) ==
  IF i > Len(<<"first">>) /\ Ch(q, i - 1) \in TokenChars
  THEN TokenBefore(q, i - 1) \o Ch(q, i - 1)
  ELSE ""

\* utterances with one service phrase and no hyphen just before 'service',
\* with the token that is captured
PlainCases ==
  {[text |-> "my service", name |-> "my"],
   [text |-> "x -service", name |-> "x"],
   [text |-> "for x - service", name |-> "x"],
   [text |-> "abc -service", name |-> "abc"],
   [text |-> "service foo", name |-> "foo"],
   [text |-> "microservice b", name |-> "micro"]}

RangesAsked(doc) ==
  IF Keys(Get(doc, "query")) # <<"bool">> THEN <<>>
  ELSE LET must == MustList(doc)
           at == {i \in 1..Len(must) : Keys(must[i]) = <<"range">>}
       IN  [n \in 1..Cardinality(at) |->
              DumpsCompact(must[CHOOSE i \in at : Cardinality({j \in at : j <= i}) = n])]

\* the leftmost 'last N <unit>' phrase of q, or None
LastPhrase(q) == Search([i \in 1..Len(q) |-> LastAmountUnitAt(q, i)])

TodayClause == GteClause("now/d")
YesterdayClause == "{\"range\":{\"@timestamp\":{\"gte\":\"now-1d/d\",\"lt\":\"now/d\"}}}"

\* C21: the output of a search carries at most one time range: that of the
\* 'last N <unit>' phrase if the utterance has one, also next to 'today' or
\* 'yesterday'; otherwise that of today if it contains 'today', also next to
\* 'yesterday'; otherwise that of yesterday if it contains 'yesterday';
\* otherwise none.
C21_TimePrecedence ==
  \A c \in Calls :
    ReturnedSearch(c) =>
      LET q == Normalized(c)
          asked == RangesAsked(Loads(out[c])[1])
          last == LastPhrase(q)
      IN  /\ asked =
               IF last # None
               THEN <<GteClause("now-" \o last[1].amount \o UnitCode(last[1].unit))>>
               ELSE IF Contains(q, "today") THEN <<TodayClause>>
               ELSE IF Contains(q, "yesterday") THEN <<YesterdayClause>>
               ELSE <<>>
          /\ Utterance(c) = "yesterday last 3 hours today" => asked = <<GteClause("now-3h")>>
          /\ Utterance(c) = "yesterday or today" => asked = <<TodayClause>>
          /\ Utterance(c) = "last 5 parsecs yesterday" => asked = <<YesterdayClause>>
          /\ Utterance(c) = "timeout timeout" => asked = <<>>

\* 'yesterday last 3 hours today' has returned with the range of the last
\* three hours and no other
C21_Witness ==
  \E c \in Calls :
    /\ ReturnedSearch(c)
    /\ Utterance(c) = "yesterday last 3 hours today"
    /\ RangesAsked(Loads(out[c])[1]) = <<GteClause("now-3h")>>

\* C22: every relative time range that parse emits has a positive amount: no
\* output carries a range of the form now-0<unit>.
C22_PositiveAmount ==
  \A c \in Calls :
    ReturnedSearch(c) =>
      LET asked == RangesAsked(Loads(out[c])[1])
      IN  \A i \in 1..Len(asked) :
            \A code \in {"m", "h", "d", "w", "M", "y"} :
              asked[i] # GteClause("now-0" \o code)

\* the number of the size phrase that decides: that of the first of 'show N
\* results', 'limit N', 'top N', 'first N', in this order, that q has
DecidingSize(q) ==
  LET phrases == SizePhrases(q)
      decides == IF phrases.show # None THEN phrases.show
                 ELSE IF phrases.limit # None THEN phrases.limit
                 ELSE IF phrases.top # None THEN phrases.top
                 ELSE phrases.first
  IN  IF decides = None THEN None ELSE Some(ParseInt(decides[1].group1))

\* C23: the size of every search output is a positive integer: the number of
\* the size phrase when there is one and the number is at least 1, and 50
\* otherwise, also when the size phrase carries 0 ('top 0 errors').
C23_PositiveSize ==
  \A c \in Calls :
    ReturnedSearch(c) =>
      LET size == Get(Loads(out[c])[1], "size")
          number == DecidingSize(Normalized(c))
      IN  /\ size.t = "int" /\ size.v > 0
          /\ size.v = IF number # None /\ number[1] > 0 THEN number[1] ELSE DefaultSize
          /\ Utterance(c) = "top 0 errors" => size.v = DefaultSize

\* 'top 0 errors' has returned with the default size
C23_Witness ==
  \E c \in Calls :
    /\ ReturnedSearch(c)
    /\ Utterance(c) = "top 0 errors"
    /\ DecidingSize(Normalized(c)) = Some(0)
    /\ out[c] = MustPayload("50", LevelClause("error"))

\* utterances with several size phrases, with the number that decides
SizeOrderCases ==
  {[text |-> "top 5 errors limit 20", number |-> 20],
   [text |-> "limit 20 top 5", number |-> 20],
   [text |-> "first 3 show 7 results", number |-> 7],
   [text |-> "first 3 top 4", number |-> 4],
   [text |-> "top 4 first 3", number |-> 4],
   [text |-> "show 7 result limit 2", number |-> 7],
   [text |-> "show 7 rows limit 2", number |-> 2],
   [text |-> "first 9 limit 8 top 7 show 6 results", number |-> 6]}

\* C24: of the size phrases of an utterance the one that decides is that of
\* the first pattern, in the order 'show N results', 'limit N', 'top N',
\* 'first N', that matches, wherever the phrases stand: 'top 5 errors limit
\* 20' gives 20.
C24_SizeOrder ==
  \A c \in Calls :
    ReturnedSearch(c) =>
      LET size == Get(Loads(out[c])[1], "size").v
          phrases == SizePhrases(Normalized(c))
          show == phrases.show # None
          limit == phrases.limit # None
          top == phrases.top # None
      IN  /\ \A case \in SizeOrderCases : Utterance(c) = case.text => size = case.number
          /\ show /\ ParseInt(phrases.show[1].group1) > 0
               => size = ParseInt(phrases.show[1].group1)
          /\ ~show /\ limit /\ ParseInt(phrases.limit[1].group1) > 0
               => size = ParseInt(phrases.limit[1].group1)
          /\ ~show /\ ~limit /\ top /\ ParseInt(phrases.top[1].group1) > 0
               => size = ParseInt(phrases.top[1].group1)
          /\ ~show /\ ~limit /\ ~top /\ phrases.first # None
               /\ ParseInt(phrases.first[1].group1) > 0
               => size = ParseInt(phrases.first[1].group1)

\* 'top 5 errors limit 20' has returned with size 20
C24_Witness ==
  \E c \in Calls :
    /\ ReturnedSearch(c)
    /\ Utterance(c) = "top 5 errors limit 20"
    /\ out[c] = MustPayload("20", LevelClause("error"))

\* the texts of the search-term clauses of a search output, in their order
TermsAsked(doc) ==
  IF Keys(Get(doc, "query")) # <<"bool">> THEN <<>>
  ELSE LET must == MustList(doc)
           places == {i \in 1..Len(must) : ClauseKind(must[i]) = "term"}
       IN  [k \in 1..Cardinality(places) |->
              ClauseText(must[CHOOSE i \in places :
                                Cardinality({j \in places : j <= i}) = k])]

\* the tokens of s from place i on: the longest runs of letters, digits and
\* underscores
RECURSIVE Tokens(_, _)
Tokens(s, i) ==
  LET n == Run(s, i, WordChars)
  IN  IF i > Len(s) THEN <<>>
      ELSE IF n = 0 THEN Tokens(s, i + 1)
      ELSE <<SubSeq(s, i, i + n - 1)>> \o Tokens(s, i + n)

\* the tokens of the cleaned utterance that are made of letters only, are no
\* stop word and are longer than two characters, from token i on
RECURSIVE TermWords(_, _)
TermWords(tokens, i) ==
  IF i > Len(tokens) THEN <<>>
  ELSE (IF /\ Run(tokens[i], 1, Letters) = Len(tokens[i])
           /\ tokens[i] \notin stop_words
           /\ Len(tokens[i]) > 2
        THEN <<tokens[i]>> ELSE <<>>) \o TermWords(tokens, i + 1)

\* for every search utterance, the words that are to be its search terms
TermCases ==
  [u \in SearchInputs |-> TermWords(Tokens(CleanedQuery(strip(lower(u))), 1), 1)]

\* C25: the search terms of a search output are the alphabetic words of the
\* cleaned utterance that are no stop word and longer than 2 characters, from
\* left to right, a repeated word as often as it occurs; there are as many
\* search-term clauses as such words.
C25_SearchTerms ==
  \A c \in Calls :
    ReturnedSearch(c) =>
      LET asked == TermsAsked(Loads(out[c])[1])
          u == Utterance(c)
      IN  /\ asked = TermCases[u]
          /\ Len(asked) = Len(TermCases[u])
          /\ u = "timeout timeout" => asked = <<"timeout", "timeout">>
          /\ u = "alpha for x service beta" => asked = <<"alpha", "beta">>
          /\ u = "refused connection warnings for pay service today"
               => asked = <<"refused", "connection">>
          /\ u = "logs of yesterdays run" => asked = <<"run">>
          /\ u = "timeout errors" => asked = <<"timeout">>

\* 'timeout timeout' has returned with two clauses for the one word
C25_Witness ==
  \E c \in Calls :
    /\ ReturnedSearch(c)
    /\ Utterance(c) = "timeout timeout"
    /\ TermCases[Utterance(c)] = <<"timeout", "timeout">>
    /\ out[c] = MustPayload("50", "{\"match\":{\"_all\":\"timeout\"}}"
                                  \o ",{\"match\":{\"_all\":\"timeout\"}}")

\* C26: a call of parse on a parser that was constructed with
\* enable_logging=False emits no log record, whatever other parsers are
\* constructed and whatever configure_logging calls are made, before, during
\* or after the call.
C26_SilentWhenDisabled ==
  \A c \in Calls :
    pc[c] # "idle" /\ ~parsers[frame[c].self].enable_logging => records[c] = {}

\* C27: after configure_logging(enable_debug=True) and then
\* NLQParser(enable_logging=True) the logger is at DEBUG, and every call of
\* parse on a string that has returned has emitted debug records.
C27_DebugAfterSetup ==
  /\ parsers[MainParser].constructed => logger.level = LEVEL.DEBUG
  /\ \A c \in Calls : Returned(c) => LEVEL.DEBUG \in records[c]

\* a query of the Webex client has returned
WebexReturned(c) == queries[c].stage = "returned"

\* the console proxy answered 200 with a JSON body that has the key hits
ProxyGaveHits(response) ==
  /\ ~response.raised /\ response.status_code = 200 /\ response.json # None
  /\ IsDict(response.json[1]) /\ HasKey(response.json[1], "hits")

\* the internal API answered 200 with a JSON body whose rawResponse has hits
InternalGaveHits(response) ==
  /\ ~response.raised /\ response.status_code = 200 /\ response.json # None
  /\ IsDict(response.json[1]) /\ HasKey(response.json[1], "rawResponse")
  /\ IsDict(Get(response.json[1], "rawResponse"))
  /\ HasKey(Get(response.json[1], "rawResponse"), "hits")

AllMethodsFailed ==
  Dict(JObj(<< <<"error", JStr("Unable to execute search query - all methods failed")>> >>))

\* C28: a search of the Webex client asks the console proxy first and the
\* internal API only when the console proxy gave no 200 JSON response with
\* hits; it returns the formatted result of the first method that gave hits,
\* and the error 'all methods failed' exactly when neither did; an error
\* payload of the parser is returned with no request made.
C28_ConsoleProxyFirst ==
  \A c \in Calls :
    WebexReturned(c) =>
      LET q == queries[c]
          payload == Loads(out[c])[1]
          n == Len(q.requests)
      IN  IF HasKey(payload, "error")
          THEN q.requests = <<>> /\ q.returned = Dict(payload)
          ELSE IF HasKey(payload, "api") THEN TRUE
          ELSE /\ n >= 1 /\ q.requests[1] = "POST api/console/proxy"
               /\ n > 1 <=> ~ProxyGaveHits(q.responses[1])
               /\ n > 1 => q.requests[n] = "POST internal/search/opensearch-with-long-numerals"
               /\ ProxyGaveHits(q.responses[1])
                    => q.returned = Dict(_format_results(q.responses[1].json[1])[1])
               /\ q.returned = AllMethodsFailed
                    <=> /\ ~ProxyGaveHits(q.responses[1])
                        /\ n > 1 /\ ~InternalGaveHits(q.responses[n])

\* C29: a query with execute=True never hands an administrative payload to
\* a document search: when the output of parse has the key api, _cat/nodes?v
\* and _cat/shards?v included, no search is made on the connection.
C29_NoSearchOfApiPayload ==
  \A c \in Calls :
    /\ queries[c].stage = "returned" /\ queries[c].execute
    /\ HasKey(Loads(out[c])[1], "api")
    => \A i \in 1..Len(queries[c].requests) : queries[c].requests[i] # "search"

\* C30: in the output of a search the occurrence of the token that became
\* the service name is not also asked for as a search term, whichever of the
\* four service patterns gave the name, 'service <token>' included: the name
\* is a search term at most as often as the word occurs elsewhere in the
\* utterance.
C30_ServiceTokenNotATerm ==
  \A c \in Calls :
    ReturnedSearch(c) =>
      LET doc == Loads(out[c])[1]
          asked == ServicesAsked(doc)
          terms == TermsAsked(doc)
          words == Tokens(Normalized(c), 1)
          asTerm == Cardinality({i \in 1..Len(terms) : terms[i] = asked[1]})
          asWord == Cardinality({i \in 1..Len(words) : words[i] = asked[1]})
      IN  asked # <<>> => asTerm = 0 \/ asTerm < asWord

====
